---------------------------- MODULE Spec2Model ----------------------------
(***************************************************************************)
(* State-machine model of the lyrics synchronisation and retrieval engine  *)
(* of taskbar_lrc_rs: the playback position tracker (PlaybackTimer), the   *)
(* orchestrator (LyricsManager) driven by the application event loop, and  *)
(* the retrieval service (LyricsService) with its disk cache and its two   *)
(* providers, and the HTTP client's retry loop.                            *)
(*                                                                         *)
(* The specifications share the variables:                                 *)
(*   SpecTimer   - the tracker's public operations called in any order     *)
(*   SpecManager - the orchestrator's two handlers called with any event   *)
(*                 (SpecManagerLive: retrieval returns)                    *)
(*   Spec        - the application: media monitor, tracker, event loop and *)
(*                 orchestrator composed as in start_background_services  *)
(*   SpecService - search_and_get_lyrics over the disk cache and providers *)
(*   SpecCache   - LyricsCache::get and put called directly                *)
(*   SpecHttp    - HttpClient::get attempt by attempt (SpecHttpLive:       *)
(*                 requests and sleeps end)                                *)
(*   SpecKey     - SongInfo::cache_key applied to pairs of identities      *)
(*   SpecParse   - parse_lyrics_to_timestamps applied to short texts       *)
(*                                                                         *)
(* Option<T> values are sequences: <<>> is None, <<v>> is Some(v).         *)
(* Durations and timestamps are integers in milliseconds; times of the    *)
(* cache are hours.                                                        *)
(***************************************************************************)
EXTENDS Integers, Sequences, FiniteSets, TLC

\* ------------------------------------------------------------------ bounds
\* Latest value of the tracker's monotonic clock (ms since start_time).
MaxNow == 150
\* Largest hour of Utc::now() the cache is run to.
MaxUtcHours == 26
\* CacheConfig.max_files of the modelled configuration.
MaxFiles == 1
\* The largest CacheConfig.max_files of a cache that is called directly.
MaxCacheFiles == 2
\* Most lines of a text handed to parse_lyrics_to_timestamps directly.
MaxLines == 3

\* Largest HttpClientConfig.max_retries of a client that is called directly.
MaxRetries == 3
\* Most pieces of a search response text handed to a manual parser.
MaxSegments == 4

\* ------------------------------------------------- constants of the program
\* update_internal_position: minimum elapsed time before the base is advanced.
DebounceMs == 50
\* update_internal_position: minimum elapsed time before PositionUpdate is sent.
EventThresholdMs == 100
\* sync_with_media: tolerated difference between reported and extrapolated position.
DriftToleranceMs == 1000
\* CacheConfig::default: ttl and cleanup_interval_hours, in hours.
TtlHours == 24
CleanupIntervalHours == 6
\* HttpClientConfig::default().max_retries
DefaultMaxRetries == 3
\* calculate_retry_delay and retry_delay_ms: base_delay and max_delay
BaseDelayMs == 100
MaxDelayMs == 30000
\* retry_delay_ms: the delays of RateLimited and ServiceUnavailable
RateLimitedDelayMs == 60000
ServiceUnavailableDelayMs == 30000

\* ----------------------------------------------------------------- helpers
None == << >>
Some(v) == << v >>
IsSome(o) == o # None
Unwrap(o) == o[1]

Min(a, b) == IF a < b THEN a ELSE b
Abs(a) == IF a < 0 THEN 0 - a ELSE a
\* u64::saturating_sub
SatSub(a, b) == IF a > b THEN a - b ELSE 0
\* Option<Duration>::unwrap_or(Duration::ZERO).as_millis()
OptMs(o) == IF o = None THEN 0 ELSE o[1]
Last(s) == s[Len(s)]

VARIABLES
    \* PlaybackTimer
    is_playing,              \* AtomicBool
    base_position_ms,        \* AtomicU64
    duration_ms,             \* AtomicU64
    last_update_timestamp,   \* AtomicU64
    current_song,            \* RwLock<Option<(String, String)>>
    now,                     \* current_timestamp_ms(start_time)
    playback_event,          \* watch channel of PlaybackEvent: the latest value
    playback_changed,        \* the event loop's receiver has not yet seen it
    timer_emitted,           \* the events the last tracker call sent, in order
    timer_call               \* the last tracker call and its argument

VARIABLES
    \* LyricsManager
    state,                   \* RwLock<LyricsState>
    parsed_lyrics_cache,     \* RwLock<HashMap<SongInfo, Vec<(u64, String)>>>
    lyrics_event,            \* watch channel of LyricsEvent: the latest value
    lyrics_changed,          \* the event loop's receiver has not yet seen it
    lyrics_emitted,          \* the events the last step sent, in order
    manager_call,            \* the handler the last step ran, and its event
    cursor_update,           \* position of the last completed line-cursor update of the step
    open_loads,              \* songs with LoadingStarted sent and no completion event since
    unannounced,             \* a completion event was sent for a song outside open_loads
    \* MediaMonitor
    media_event,             \* watch channel of MediaEvent: the latest value
    media_changed,           \* the event loop's receiver has not yet seen it
    \* App::run_event_loop
    loop_pc,                 \* the main loop: at its select!, or inside a handler awaiting retrieval
    last_playing_state,      \* supervisor task: the playing flag seen by the last check
    update_task              \* supervisor task: the position-advance task

timer_vars == << is_playing, base_position_ms, duration_ms, last_update_timestamp,
                 current_song, now, playback_event, playback_changed,
                 timer_emitted, timer_call >>

manager_vars == << state, parsed_lyrics_cache, lyrics_event, lyrics_changed,
                   lyrics_emitted, manager_call, cursor_update, open_loads,
                   unannounced >>

VARIABLES
    \* LyricsService and LyricsCache
    cache_files,             \* the files of cache_dir, oldest-modified first
    last_cleanup,            \* Mutex<Option<DateTime<Utc>>>
    utc_now,                 \* Utc::now(), in hours
    enable_netease,          \* LyricsServiceConfig.enable_netease
    enable_qqmusic,          \* LyricsServiceConfig.enable_qqmusic
    service_call,            \* what the last call of search_and_get_lyrics did
    max_files,               \* CacheConfig.max_files
    cache_call,              \* what the last call of LyricsCache::get or put did
    cache_written            \* per cache key, the last put that stored an entry

app_vars == << media_event, media_changed, loop_pc, last_playing_state, update_task >>

service_vars == << cache_files, last_cleanup, utc_now, enable_netease, enable_qqmusic,
                   service_call, max_files, cache_call, cache_written >>

VARIABLES
    \* HttpClient::request_with_retry, one call at a time
    http_max_retries,        \* HttpClientConfig.max_retries
    http_pc,                 \* where the call stands: idle, request, sleep, returned
    http_attempt,            \* the loop variable attempt
    http_last_error,         \* the local last_error
    http_delay,              \* the delay of the sleep in progress, in ms
    http_log,                \* what each execute_request of the call returned
    http_result              \* what the call returned

http_vars == << http_max_retries, http_pc, http_attempt, http_last_error, http_delay,
                http_log, http_result >>

VARIABLES
    \* a pure function applied to arguments
    pure_input,              \* the arguments drawn
    pure_output              \* what the function returned for them

pure_vars == << pure_input, pure_output >>

VARIABLES
    \* PlaybackTimer called from two tasks, one load or store at a time
    reader,                  \* a call of get_current_position: position and locals
    writer                   \* a call of a writing method: position and locals

race_vars == << reader, writer >>

VARIABLES
    \* further tasks sharing the orchestrator and the tracker
    suspended,               \* LyricsManager: the calls awaiting retrieval, under several callers
    ticker,                  \* update_internal_position next to sync_with_media: position and locals
    app_state                \* App: RwLock<AppState>, its lyrics_state

task_vars == << suspended, ticker, app_state >>

vars == << timer_vars, manager_vars, app_vars, service_vars, http_vars, pure_vars,
           race_vars, task_vars >>

\* ------------------------------------------------------------- PlaybackEvent
SongChanged(t, a, d) ==
    [type |-> "SongChanged", title |-> t, artist |-> a, duration |-> d,
     is_playing |-> FALSE, position |-> 0]
PlayStateChanged(p, pos) ==
    [type |-> "PlayStateChanged", title |-> "", artist |-> "", duration |-> None,
     is_playing |-> p, position |-> pos]
PositionUpdate(pos) ==
    [type |-> "PositionUpdate", title |-> "", artist |-> "", duration |-> None,
     is_playing |-> FALSE, position |-> pos]
ResetEvent ==
    [type |-> "Reset", title |-> "", artist |-> "", duration |-> None,
     is_playing |-> FALSE, position |-> 0]

\* --------------------------------------------------------------- MediaInfo
MediaInfo(t, a, d, p, s) ==
    [title |-> t, artist |-> a, duration |-> d, position |-> p, playback_status |-> s]
\* MediaInfo::default()
DefaultMedia == MediaInfo("", "", None, None, "Unknown")

\* Snapshots handed to sync_with_media when it is called directly: two songs
\* with every combination of duration, position and status, and snapshots
\* with an empty title, an empty artist, or both.
TimerDurations == {None, Some(1050)}
TimerPositions == {None, Some(0), Some(1001), Some(2001)}
TimerMedia ==
    { MediaInfo(t, "a1", d, p, s) : t \in {"s1", "s2"}, d \in TimerDurations,
        p \in TimerPositions, s \in {"Playing", "Paused"} }
    \cup { MediaInfo("s1", "a1", Some(1050), Some(0), "Stopped"),
           MediaInfo("", "a1", Some(1050), Some(2001), "Playing"),
           MediaInfo("s1", "", None, Some(2001), "Paused"),
           DefaultMedia }
\* Steps of the clock between two calls.
TimerDeltas == {25, 50}

\* ------------------------------------------------------------ PlaybackTimer
\* Variant of CurrentPosition that omits the duration check.
CurrentPositionUnclipped(playing, base, dur, last, t) ==
    IF ~playing THEN base ELSE base + SatSub(t, last)

\* get_current_position over explicit field values read at time t.
CurrentPosition(playing, base, dur, last, t) ==
    IF ~playing
    THEN base
    ELSE LET elapsed_ms == SatSub(t, last)
             current_position_ms == base + elapsed_ms
         IN  IF dur > 0 /\ current_position_ms > dur
             THEN dur
             ELSE current_position_ms

get_current_position ==
    CurrentPosition(is_playing, base_position_ms, duration_ms,
                    last_update_timestamp, now)

\* watch::Sender::send of each event of evs, in order: the slot keeps the last.
SendPlayback(evs) ==
    /\ timer_emitted' = evs
    /\ playback_event' = IF evs = << >> THEN playback_event ELSE Last(evs)
    /\ playback_changed' = IF evs = << >> THEN playback_changed ELSE TRUE

TimerCall(op, media) == [op |-> op, media |-> media]

\* Variant of TickUpdates that omits the early return taken while not playing.
TickUpdatesAlways(playing, elapsed_ms) == elapsed_ms >= DebounceMs

\* Variant of TickSends that sends with every update of the base.
TickSendsOnUpdate(elapsed_ms) == elapsed_ms >= DebounceMs

\* Whether update_internal_position stores a new base, whether it sends
\* PositionUpdate, and the base it stores.
TickUpdates(playing, elapsed_ms) == playing /\ elapsed_ms >= DebounceMs
TickSends(elapsed_ms) == elapsed_ms >= EventThresholdMs
\* Variant of TickPosition that stores the old base again.
TickPositionKeepsBase(old_position_ms, elapsed_ms, dur) == old_position_ms

TickPosition(old_position_ms, elapsed_ms, dur) ==
    LET new_position_ms == old_position_ms + elapsed_ms
    IN  IF dur > 0 /\ new_position_ms > dur THEN dur ELSE new_position_ms

update_internal_position ==
    LET elapsed_ms == SatSub(now, last_update_timestamp)
        final_position_ms == TickPosition(base_position_ms, elapsed_ms, duration_ms)
    IN  /\ timer_call' = TimerCall("update_internal_position", DefaultMedia)
        /\ UNCHANGED << is_playing, duration_ms, current_song, now >>
        /\ IF TickUpdates(is_playing, elapsed_ms)
           THEN /\ base_position_ms' = final_position_ms
                /\ last_update_timestamp' = now
                /\ SendPlayback(IF TickSends(elapsed_ms)
                                THEN << PositionUpdate(final_position_ms) >>
                                ELSE << >>)
           ELSE /\ UNCHANGED << base_position_ms, last_update_timestamp >>
                /\ SendPlayback(<< >>)

\* The identity a snapshot carries: none when title or artist is empty.
NewSong(media) ==
    IF media.title = "" \/ media.artist = ""
    THEN None
    ELSE Some(<< media.title, media.artist >>)

\* Variant of NewPlaying that takes every status but Paused as playing.
NewPlayingUnlessPaused(media) == media.playback_status # "Paused"

\* matches!(media.playback_status, PlaybackStatus::Playing)
NewPlaying(media) == media.playback_status = "Playing"

\* Variant of NeedsCorrection that corrects at the tolerance itself.
NeedsCorrectionInclusive(actual_position, current_pos) ==
    Abs(actual_position - current_pos) >= DriftToleranceMs

\* The drift check of sync_with_media: position_diff > Duration::from_secs(1).
NeedsCorrection(actual_position, current_pos) ==
    Abs(actual_position - current_pos) > DriftToleranceMs

sync_with_media(media) ==
    LET new_song == NewSong(media)
        is_new_song == current_song # new_song
        new_playing == NewPlaying(media)
    IN  /\ timer_call' = TimerCall("sync_with_media", media)
        /\ UNCHANGED now
        /\ IF is_new_song
           THEN /\ current_song' = new_song
                /\ base_position_ms' = OptMs(media.position)
                /\ duration_ms' = OptMs(media.duration)
                /\ is_playing' = new_playing
                /\ last_update_timestamp' = now
                /\ SendPlayback(IF IsSome(new_song)
                                THEN << SongChanged(media.title, media.artist,
                                                    media.duration) >>
                                ELSE << ResetEvent >>)
           ELSE IF IsSome(current_song)
           THEN LET state_changed == is_playing # new_playing
                    \* after the first block: is_playing and the timestamp
                    last1 == IF state_changed THEN now ELSE last_update_timestamp
                    ev1 == IF state_changed
                           THEN << PlayStateChanged(new_playing,
                                     CurrentPosition(new_playing, base_position_ms,
                                                     duration_ms, last1, now)) >>
                           ELSE << >>
                    \* the second block: the drift check
                    current_pos == CurrentPosition(new_playing, base_position_ms,
                                                   duration_ms, last1, now)
                    corrects == /\ IsSome(media.position)
                                /\ NeedsCorrection(OptMs(media.position), current_pos)
                IN  /\ is_playing' = new_playing
                    /\ UNCHANGED << current_song, duration_ms >>
                    /\ base_position_ms' =
                         IF corrects THEN OptMs(media.position) ELSE base_position_ms
                    /\ last_update_timestamp' = IF corrects THEN now ELSE last1
                    /\ SendPlayback(IF corrects
                                    THEN ev1 \o << PositionUpdate(OptMs(media.position)) >>
                                    ELSE ev1)
           ELSE /\ UNCHANGED << current_song, base_position_ms, duration_ms,
                                is_playing, last_update_timestamp >>
                /\ SendPlayback(<< >>)

\* PlaybackTimer::reset
reset ==
    /\ timer_call' = TimerCall("reset", DefaultMedia)
    /\ base_position_ms' = 0
    /\ duration_ms' = 0
    /\ is_playing' = FALSE
    /\ last_update_timestamp' = now
    /\ current_song' = None
    /\ UNCHANGED now
    /\ SendPlayback(<< ResetEvent >>)

\* The monotonic clock moves on by d ms; nothing else changes.
Advance(d) ==
    /\ now + d <= MaxNow
    /\ now' = now + d
    /\ timer_call' = TimerCall("advance", DefaultMedia)
    /\ timer_emitted' = << >>
    /\ UNCHANGED << is_playing, base_position_ms, duration_ms, last_update_timestamp,
                    current_song, playback_event, playback_changed >>

\* PlaybackTimer::new
TimerInit ==
    /\ is_playing = FALSE
    /\ base_position_ms = 0
    /\ duration_ms = 0
    /\ last_update_timestamp = 0
    /\ current_song = None
    /\ now = 0
    /\ playback_event = ResetEvent
    /\ playback_changed = FALSE
    /\ timer_emitted = << >>
    /\ timer_call = TimerCall("new", DefaultMedia)

\* ------------------------------------------- PlaybackTimer, one access a step
\* get_current_position runs in one task while a writing method runs in
\* another. Each step below is one atomic load or store (Ordering::Relaxed)
\* of the code, in program order; a clock read goes with the load before it.
Fields(playing, base, dur, last) ==
    [is_playing |-> playing, base |-> base, dur |-> dur, last |-> last]
FieldsNow == Fields(is_playing, base_position_ms, duration_ms, last_update_timestamp)
\* get_current_position over the field values f, read at time t.
PositionOf(f, t) == CurrentPosition(f.is_playing, f.base, f.dur, f.last, t)

\* The update task's period: interval(Duration::from_millis(100)).
UpdateIntervalMs == 100
\* The clock of the interleaved calls stays within one update interval.
MaxRaceNow == 100
RaceDeltas == {100}
\* Snapshots the monitor hands over: a song without duration far into its
\* playback, another song with a duration at its start, the first song moved
\* back to its start, and the first song paused.
RaceMedia ==
    { MediaInfo("s1", "a1", None, Some(2001), "Playing"),
      MediaInfo("s2", "a1", Some(1050), Some(0), "Playing"),
      MediaInfo("s1", "a1", None, Some(0), "Playing"),
      MediaInfo("s1", "a1", None, None, "Paused") }

\* The calls in progress are kept in reader and writer, not in timer_call.
InterleavedCall == TimerCall("interleaved", DefaultMedia)

\* No call of get_current_position in progress, none returned.
ReaderIdle ==
    [pc |-> "idle", is_playing |-> FALSE, base |-> 0, last |-> 0, t |-> 0,
     result |-> None, overlap |-> 0, op |-> "none", before |-> None, after |-> None]
\* No writing method in progress.
WriterIdle ==
    [pc |-> "idle", op |-> "none", media |-> DefaultMedia, t |-> 0, elapsed |-> 0,
     final |-> 0, before |-> Fields(FALSE, 0, 0, 0)]
ReaderActive == reader.pc \notin {"idle", "done"}
WriterActive == writer.pc # "idle"

RaceInit ==
    /\ reader = ReaderIdle
    /\ writer = WriterIdle

\* No update_internal_position in progress next to sync_with_media.
TickerIdle ==
    [pc |-> "idle", t |-> 0, elapsed |-> 0, final |-> 0, overlap |-> FALSE,
     synced |-> None]

\* No further task has called the orchestrator or the tracker.
TaskInit ==
    /\ suspended = {}
    /\ ticker = TickerIdle
    /\ app_state = [lyrics_state |-> [current_song |-> None, current_lyrics |-> None,
                                      is_loading |-> FALSE, current_line |-> None,
                                      current_position |-> 0]]

\* What one step of a writing method leaves: its next position and locals,
\* the fields, the song and the events it sent.
Outcome(pc, t, elapsed, final, f, song, ev) ==
    [pc |-> pc, t |-> t, elapsed |-> elapsed, final |-> final, f |-> f,
     song |-> song, ev |-> ev]

\* update_internal_position, one access a step, with w the call's locals.
TickStepOf(pc, w) ==
    LET f == FieldsNow
    IN  CASE pc = "begin" ->
               \* is_playing.load, and the early return
               Outcome(IF f.is_playing THEN "tick_last" ELSE "idle",
                       0, 0, 0, f, current_song, << >>)
          [] pc = "tick_last" ->
               \* the clock, last_update_timestamp.load, elapsed_ms >= 50
               LET elapsed_ms == SatSub(now, f.last)
               IN  Outcome(IF elapsed_ms >= DebounceMs THEN "tick_base" ELSE "idle",
                           now, elapsed_ms, 0, f, current_song, << >>)
          [] pc = "tick_base" ->
               \* base_position_ms.load
               Outcome("tick_dur", w.t, w.elapsed, f.base + w.elapsed, f,
                       current_song, << >>)
          [] pc = "tick_dur" ->
               \* duration_ms.load
               Outcome("tick_store_base", w.t, w.elapsed,
                       IF f.dur > 0 /\ w.final > f.dur THEN f.dur ELSE w.final,
                       f, current_song, << >>)
          [] pc = "tick_store_base" ->
               Outcome("tick_store_last", w.t, w.elapsed, w.final,
                       [f EXCEPT !.base = w.final], current_song, << >>)
          [] pc = "tick_store_last" ->
               Outcome("idle", 0, 0, 0, [f EXCEPT !.last = w.t], current_song,
                       IF TickSends(w.elapsed)
                       THEN << PositionUpdate(w.final) >>
                       ELSE << >>)

TickStep(pc) == TickStepOf(pc, writer)

\* sync_with_media, one access a step.
SyncStep(pc, media) ==
    LET f == FieldsNow
        new_song == NewSong(media)
        new_playing == NewPlaying(media)
        Goes(to, g, song, ev) == Outcome(to, 0, 0, 0, g, song, ev)
    IN  CASE pc = "begin" ->
               \* current_song.read(), is_new_song
               Goes(IF current_song # new_song THEN "song_write"
                    ELSE IF IsSome(current_song) THEN "same_is_playing"
                    ELSE "idle",
                    f, current_song, << >>)
          [] pc = "song_write" ->
               Goes("new_base", f, new_song, << >>)
          [] pc = "new_base" ->
               Goes("new_dur", [f EXCEPT !.base = OptMs(media.position)],
                    current_song, << >>)
          [] pc = "new_dur" ->
               Goes("new_playing", [f EXCEPT !.dur = OptMs(media.duration)],
                    current_song, << >>)
          [] pc = "new_playing" ->
               Goes("new_last", [f EXCEPT !.is_playing = new_playing],
                    current_song, << >>)
          [] pc = "new_last" ->
               Goes("idle", [f EXCEPT !.last = now], current_song,
                    IF IsSome(new_song)
                    THEN << SongChanged(media.title, media.artist, media.duration) >>
                    ELSE << ResetEvent >>)
          [] pc = "same_is_playing" ->
               \* old_playing = is_playing.load
               Goes(IF f.is_playing # new_playing THEN "flag_playing" ELSE "drift_check",
                    f, current_song, << >>)
          [] pc = "flag_playing" ->
               Goes("flag_last", [f EXCEPT !.is_playing = new_playing],
                    current_song, << >>)
          [] pc = "flag_last" ->
               LET g == [f EXCEPT !.last = now]
               IN  Goes("drift_check", g, current_song,
                        << PlayStateChanged(new_playing, PositionOf(g, now)) >>)
          [] pc = "drift_check" ->
               \* the method's own get_current_position and the comparison
               Goes(IF /\ IsSome(media.position)
                       /\ NeedsCorrection(OptMs(media.position), PositionOf(f, now))
                    THEN "drift_base"
                    ELSE "idle",
                    f, current_song, << >>)
          [] pc = "drift_base" ->
               Goes("drift_last", [f EXCEPT !.base = OptMs(media.position)],
                    current_song, << >>)
          [] pc = "drift_last" ->
               Goes("idle", [f EXCEPT !.last = now], current_song,
                    << PositionUpdate(OptMs(media.position)) >>)

\* reset, one access a step.
ResetStep(pc) ==
    LET f == FieldsNow
        Goes(to, g, song, ev) == Outcome(to, 0, 0, 0, g, song, ev)
    IN  CASE pc = "begin" ->
               Goes("reset_dur", [f EXCEPT !.base = 0], current_song, << >>)
          [] pc = "reset_dur" ->
               Goes("reset_playing", [f EXCEPT !.dur = 0], current_song, << >>)
          [] pc = "reset_playing" ->
               Goes("reset_last", [f EXCEPT !.is_playing = FALSE], current_song, << >>)
          [] pc = "reset_last" ->
               Goes("reset_song", [f EXCEPT !.last = now], current_song, << >>)
          [] pc = "reset_song" ->
               Goes("idle", f, None, << ResetEvent >>)

WriterStepOf(op, pc, media) ==
    CASE op = "update_internal_position" -> TickStep(pc)
      [] op = "sync_with_media" -> SyncStep(pc, media)
      [] op = "reset" -> ResetStep(pc)

\* The step o of the call op(media) takes effect. A read in progress notes the
\* fields before the first writing call it meets and counts the calls it
\* meets; the fields that call leaves are noted when it returns.
WriterApply(o, op, media, begins) ==
    LET before == IF begins THEN FieldsNow ELSE writer.before
        met == IF begins /\ ReaderActive /\ o.pc # "idle"
               THEN [reader EXCEPT !.overlap = Min(2, @ + 1),
                                   !.op = IF reader.overlap = 0 THEN op ELSE @,
                                   !.before = IF reader.overlap = 0
                                              THEN Some(FieldsNow)
                                              ELSE @]
               ELSE reader
    IN  /\ writer' = IF o.pc = "idle"
                     THEN WriterIdle
                     ELSE [pc |-> o.pc, op |-> op, media |-> media, t |-> o.t,
                           elapsed |-> o.elapsed, final |-> o.final,
                           before |-> before]
        /\ is_playing' = o.f.is_playing
        /\ base_position_ms' = o.f.base
        /\ duration_ms' = o.f.dur
        /\ last_update_timestamp' = o.f.last
        /\ current_song' = o.song
        /\ timer_call' = InterleavedCall
        /\ SendPlayback(o.ev)
        /\ UNCHANGED now
        /\ reader' = IF /\ ~begins
                        /\ o.pc = "idle"
                        /\ reader.pc # "idle"
                        /\ reader.overlap = 1
                        /\ reader.after = None
                     THEN [reader EXCEPT !.after = Some(o.f)]
                     ELSE met

\* A writing method is called and makes its first access.
WriterBegins(op, media) ==
    /\ ~WriterActive
    /\ WriterApply(WriterStepOf(op, "begin", media), op, media, TRUE)

\* The writing method in progress makes its next access.
WriterStep ==
    /\ WriterActive
    /\ WriterApply(WriterStepOf(writer.op, writer.pc, writer.media),
                   writer.op, writer.media, FALSE)

\* get_current_position is called: is_playing.load.
ReaderBegins ==
    /\ ~ReaderActive
    /\ reader' = [ReaderIdle EXCEPT
                    !.pc = "base",
                    !.is_playing = is_playing,
                    !.overlap = IF WriterActive THEN 1 ELSE 0,
                    !.op = writer.op,
                    !.before = IF WriterActive THEN Some(writer.before) ELSE None]
    /\ timer_call' = InterleavedCall
    /\ timer_emitted' = << >>
    /\ UNCHANGED << is_playing, base_position_ms, duration_ms, last_update_timestamp,
                    current_song, now, playback_event, playback_changed, writer >>

\* The next load of the call in progress; the last one returns the position.
ReaderStep ==
    /\ ReaderActive
    /\ reader' =
         CASE reader.pc = "base" ->
                \* base_position_ms.load, and the return while not playing
                IF reader.is_playing
                THEN [reader EXCEPT !.pc = "last", !.base = base_position_ms]
                ELSE [reader EXCEPT !.pc = "done", !.base = base_position_ms,
                                    !.t = now, !.result = Some(base_position_ms)]
           [] reader.pc = "last" ->
                \* last_update_timestamp.load, the clock
                [reader EXCEPT !.pc = "dur", !.last = last_update_timestamp,
                               !.t = now]
           [] reader.pc = "dur" ->
                \* duration_ms.load, the clipped sum
                LET current_position_ms == reader.base + SatSub(reader.t, reader.last)
                IN  [reader EXCEPT
                       !.pc = "done",
                       !.result = Some(IF /\ duration_ms > 0
                                          /\ current_position_ms > duration_ms
                                       THEN duration_ms
                                       ELSE current_position_ms)]
    /\ timer_call' = InterleavedCall
    /\ timer_emitted' = << >>
    /\ UNCHANGED << is_playing, base_position_ms, duration_ms, last_update_timestamp,
                    current_song, now, playback_event, playback_changed, writer >>

\* update_internal_position runs in the position-advance task while the main
\* loop runs sync_with_media as the writing method.
TickerActive == ticker.pc \notin {"idle", "done"}

\* The step o of the tick takes effect.
TickerApply(o, overlap, synced) ==
    /\ ticker' = [pc |-> IF o.pc = "idle" THEN "done" ELSE o.pc, t |-> o.t,
                  elapsed |-> o.elapsed, final |-> o.final, overlap |-> overlap,
                  synced |-> synced]
    /\ is_playing' = o.f.is_playing
    /\ base_position_ms' = o.f.base
    /\ duration_ms' = o.f.dur
    /\ last_update_timestamp' = o.f.last
    /\ timer_call' = InterleavedCall
    /\ SendPlayback(o.ev)
    /\ UNCHANGED << current_song, now, race_vars, suspended, app_state >>

\* The task calls update_internal_position, which makes its first load. The
\* call notes whether a sync_with_media is in progress.
TickerBegins ==
    /\ ~TickerActive
    /\ TickerApply(TickStepOf("begin", TickerIdle), WriterActive, None)

\* The tick in progress makes its next access.
TickerStep ==
    /\ TickerActive
    /\ TickerApply(TickStepOf(ticker.pc, ticker), ticker.overlap, ticker.synced)

\* sync_with_media is called next to the tick. A tick in progress notes the call.
SyncBeginsNextToTick(media) ==
    /\ WriterBegins("sync_with_media", media)
    /\ ticker' = IF ticker.pc = "done"
                 THEN TickerIdle
                 ELSE IF TickerActive /\ writer'.pc # "idle"
                 THEN [ticker EXCEPT !.overlap = TRUE]
                 ELSE ticker
    /\ UNCHANGED << suspended, app_state >>

\* The next access of sync_with_media. With its last store of a song change
\* or of a drift correction the tick it met notes the position the snapshot
\* reported and the time.
SyncStepNextToTick ==
    /\ WriterStep
    /\ ticker' = IF writer.pc \in {"new_last", "drift_last"} /\ ticker.overlap
                 THEN [ticker EXCEPT
                         !.synced = Some([base |-> OptMs(writer.media.position),
                                          at |-> now])]
                 ELSE ticker
    /\ UNCHANGED << suspended, app_state >>

\* The clock moves on between two accesses.
RaceAdvance(d) ==
    /\ now + d <= MaxRaceNow
    /\ now' = now + d
    /\ timer_call' = InterleavedCall
    /\ timer_emitted' = << >>
    /\ UNCHANGED << is_playing, base_position_ms, duration_ms, last_update_timestamp,
                    current_song, playback_event, playback_changed, race_vars >>

\* ================================================================= LRC text
\* A lyrics text is the sequence of its lines (str::lines). A line is a record
\*   tagged    - the trimmed line starts with '[' and holds a ']'
\*   time_part - the text between them, split at ':' and each part at '.';
\*               a token is Some(n) when it parses as the u64 n, else None
\*   content   - the trimmed text after the ']'
LrcLine(mm, ss, xx, content) ==
    [tagged |-> TRUE,
     time_part |-> << << Some(mm) >>, << Some(ss), Some(xx) >> >>,
     content |-> content]
\* A metadata tag such as [ar:name]: two parts, neither a number.
MetaLine == [tagged |-> TRUE, time_part |-> << << None >>, << None >> >>, content |-> ""]
\* A tag without centiseconds, such as [00:05]text.
ShortTagLine(mm, ss, content) ==
    [tagged |-> TRUE, time_part |-> << << Some(mm) >>, << Some(ss) >> >>,
     content |-> content]
\* A line without a leading bracket.
PlainLine(content) == [tagged |-> FALSE, time_part |-> << >>, content |-> content]

\* LyricsData::parse_lrc_timestamp
ParseLrcTimestamp(time_part) ==
    IF Len(time_part) # 2
    THEN None
    ELSE LET minutes_part == time_part[1]
             seconds_parts == time_part[2]
         IN  IF Len(minutes_part) # 1 \/ minutes_part[1] = None
             THEN None
             ELSE IF Len(seconds_parts) # 2
             THEN None
             ELSE IF seconds_parts[1] = None \/ seconds_parts[2] = None
             THEN None
             ELSE Some(minutes_part[1][1] * 60 * 1000
                       + seconds_parts[1][1] * 1000
                       + seconds_parts[2][1] * 10)

TimedLine(timestamp, text) == [timestamp |-> timestamp, text |-> text]

\* The loop of parse_lyrics_to_timestamps: one entry per well-formed line.
RECURSIVE CollectLines(_)
CollectLines(lyrics) ==
    IF lyrics = << >>
    THEN << >>
    ELSE LET line == Head(lyrics)
             timestamp_ms == IF line.tagged THEN ParseLrcTimestamp(line.time_part) ELSE None
         IN  (IF IsSome(timestamp_ms)
              THEN << TimedLine(timestamp_ms[1], line.content) >>
              ELSE << >>) \o CollectLines(Tail(lyrics))

\* Variant of InsertByTime that puts an entry before the entries of equal key.
RECURSIVE InsertByTimeBefore(_, _)
InsertByTimeBefore(sorted, e) ==
    IF sorted = << >>
    THEN << e >>
    ELSE IF Head(sorted).timestamp < e.timestamp
    THEN << Head(sorted) >> \o InsertByTimeBefore(Tail(sorted), e)
    ELSE << e >> \o sorted

\* Vec::sort_by_key is stable: an entry goes behind the entries of equal key.
RECURSIVE InsertByTime(_, _)
InsertByTime(sorted, e) ==
    IF sorted = << >>
    THEN << e >>
    ELSE IF Head(sorted).timestamp <= e.timestamp
    THEN << Head(sorted) >> \o InsertByTime(Tail(sorted), e)
    ELSE << e >> \o sorted

RECURSIVE SortByTime(_)
SortByTime(lines) ==
    IF lines = << >>
    THEN << >>
    ELSE InsertByTime(SortByTime(SubSeq(lines, 1, Len(lines) - 1)), lines[Len(lines)])

\* LyricsManager::parse_lyrics_to_timestamps
ParseLyricsToTimestamps(lyrics) == SortByTime(CollectLines(lyrics))

\* Variant of FindFrom that takes a line only strictly after its timestamp.
RECURSIVE FindFromStrict(_, _, _)
FindFromStrict(lyrics_list, current_ms, current_lyrics) ==
    IF lyrics_list = << >>
    THEN current_lyrics
    ELSE IF Head(lyrics_list).timestamp < current_ms
    THEN FindFromStrict(Tail(lyrics_list), current_ms,
                        IF Head(lyrics_list).text # ""
                        THEN Some(Head(lyrics_list).text)
                        ELSE current_lyrics)
    ELSE current_lyrics
FindCurrentLyricsLineStrict(lyrics_list, current_ms) ==
    FindFromStrict(lyrics_list, current_ms, None)

\* The loop of find_current_lyrics_line, with current_lyrics its accumulator.
RECURSIVE FindFrom(_, _, _)
FindFrom(lyrics_list, current_ms, current_lyrics) ==
    IF lyrics_list = << >>
    THEN current_lyrics
    ELSE IF Head(lyrics_list).timestamp <= current_ms
    THEN FindFrom(Tail(lyrics_list), current_ms,
                  IF Head(lyrics_list).text # ""
                  THEN Some(Head(lyrics_list).text)
                  ELSE current_lyrics)
    ELSE current_lyrics

\* LyricsManager::find_current_lyrics_line
FindCurrentLyricsLine(lyrics_list, current_ms) ==
    FindFrom(lyrics_list, current_ms, None)

\* The last loop of parse_lrc_for_time, with current_lyrics its accumulator:
\* every line at or before current_ms replaces it, an empty one too.
RECURSIVE TimeFrom(_, _, _)
TimeFrom(lyrics_lines, current_ms, current_lyrics) ==
    IF lyrics_lines = << >>
    THEN current_lyrics
    ELSE IF Head(lyrics_lines).timestamp <= current_ms
    THEN TimeFrom(Tail(lyrics_lines), current_ms, Some(Head(lyrics_lines).text))
    ELSE current_lyrics

\* LyricsData::parse_lrc_for_time: the same collection and sort as
\* parse_lyrics_to_timestamps, then current_lyrics.filter(|s| !s.is_empty()).
ParseLrcForTime(lyrics, current_ms) ==
    LET current_lyrics == TimeFrom(SortByTime(CollectLines(lyrics)), current_ms, None)
    IN  IF IsSome(current_lyrics) /\ current_lyrics[1] # ""
        THEN current_lyrics
        ELSE None

\* LyricsData::get_current_lyrics_line
GetCurrentLyricsLine(lyrics_data, current_ms) ==
    IF IsSome(lyrics_data.original)
    THEN ParseLrcForTime(lyrics_data.original[1], current_ms)
    ELSE IF IsSome(lyrics_data.translated)
    THEN ParseLrcForTime(lyrics_data.translated[1], current_ms)
    ELSE None

\* ============================================================== LyricsData
SongInfo(title, artist) == [title |-> title, artist |-> artist]
NoSongInfo == SongInfo("", "")

LyricsData(original, translated, romanized, source) ==
    [original |-> original, translated |-> translated, romanized |-> romanized,
     source |-> source]
\* LyricsData::default()
DefaultLyricsData == LyricsData(None, None, None, "Unknown")

\* The texts and documents retrieval can return to the orchestrator.
LrcThreeLines ==
    << LrcLine(0, 5, 0, "B"), MetaLine, LrcLine(0, 0, 0, "A"),
       PlainLine("chorus"), LrcLine(0, 10, 0, "C") >>
LrcWithGap ==
    << LrcLine(0, 0, 10, "X"), LrcLine(0, 5, 0, ""), ShortTagLine(0, 6, "Y") >>
LrcTranslation == << LrcLine(0, 0, 0, "T") >>
DocThreeLines == LyricsData(Some(LrcThreeLines), None, None, "NetEase")
DocWithGap == LyricsData(Some(LrcWithGap), Some(LrcTranslation), None, "QQMusic")
DocTranslatedOnly == LyricsData(None, Some(LrcTranslation), None, "QQMusic")
ManagerDocs == {DocThreeLines, DocWithGap, DocTranslatedOnly}

\* LyricsResult<LyricsData>
Ok(lyrics_data) == [ok |-> TRUE, lyrics |-> lyrics_data, error |-> ""]
Err(error) == [ok |-> FALSE, lyrics |-> DefaultLyricsData, error |-> error]
\* What search_and_get_lyrics can return to load_lyrics_for_song.
RetrievalResults == { Ok(doc) : doc \in ManagerDocs } \cup { Err("LyricsNotFound") }

\* ============================================================= LyricsManager
\* LyricsEvent
LoadingStarted(song_info) ==
    [type |-> "LoadingStarted", song_info |-> song_info, lyrics |-> None,
     error |-> "", line |-> None, position |-> 0]
LoadingCompleted(song_info, lyrics_data) ==
    [type |-> "LoadingCompleted", song_info |-> song_info, lyrics |-> Some(lyrics_data),
     error |-> "", line |-> None, position |-> 0]
LoadingFailed(song_info, error) ==
    [type |-> "LoadingFailed", song_info |-> song_info, lyrics |-> None,
     error |-> error, line |-> None, position |-> 0]
CurrentLineUpdated(line, position) ==
    [type |-> "CurrentLineUpdated", song_info |-> NoSongInfo, lyrics |-> None,
     error |-> "", line |-> line, position |-> position]
Cleared ==
    [type |-> "Cleared", song_info |-> NoSongInfo, lyrics |-> None,
     error |-> "", line |-> None, position |-> 0]

\* LyricsState (last_updated is not modelled: nothing reads it)
LyricsState(song, lyrics, loading, line, position) ==
    [current_song |-> song, current_lyrics |-> lyrics, is_loading |-> loading,
     current_line |-> line, current_position |-> position]
\* LyricsState::default()
DefaultLyricsState == LyricsState(None, None, FALSE, None, 0)

\* HashMap over SongInfo: a function whose domain is the set of keys.
EmptyMap == << >>
MapInsert(map, key, value) ==
    [k \in (DOMAIN map) \cup {key} |-> IF k = key THEN value ELSE map[k]]
\* Variant of MapRemove that keeps the entry.
MapRemoveKeeps(map, key) == map
\* HashMap::remove
MapRemove(map, key) == [k \in (DOMAIN map) \ {key} |-> map[k]]
MapGet(map, key) == IF key \in DOMAIN map THEN Some(map[key]) ELSE None

\* The orchestrator's data inside one handler call: the LyricsState, the
\* parsed line cache, the events sent so far and the position of the last
\* line-cursor update that ran to its end.
Ms(st, cache, emitted, cursor) ==
    [state |-> st, cache |-> cache, emitted |-> emitted, cursor |-> cursor]

\* LyricsManager::update_current_lyrics_line
UpdateCurrentLyricsLine(ms, position) ==
    IF ms.state.current_song = None
    THEN ms
    ELSE IF ms.state.is_loading
    THEN ms
    ELSE LET song_info == ms.state.current_song[1]
             parsed_lyrics == MapGet(ms.cache, song_info)
             current_line == IF IsSome(parsed_lyrics)
                             THEN FindCurrentLyricsLine(parsed_lyrics[1], position)
                             ELSE None
             line_changed == ms.state.current_line # current_line
         IN  Ms([ms.state EXCEPT !.current_line = current_line,
                                 !.current_position = position],
                ms.cache,
                IF line_changed
                THEN ms.emitted \o << CurrentLineUpdated(current_line, position) >>
                ELSE ms.emitted,
                Some(position))

\* LyricsManager::update_current_position
UpdateCurrentPosition(ms, position) ==
    UpdateCurrentLyricsLine(
        Ms([ms.state EXCEPT !.current_position = position], ms.cache, ms.emitted,
           ms.cursor),
        position)

\* Variant of ClearLyrics that leaves the parsed line cache as it is.
ClearLyricsKeepsCache(ms) ==
    Ms(DefaultLyricsState, ms.cache, ms.emitted \o << Cleared >>, ms.cursor)

\* LyricsManager::clear_lyrics
ClearLyrics(ms) ==
    Ms(DefaultLyricsState, EmptyMap, ms.emitted \o << Cleared >>, ms.cursor)

\* Variant of NeedsLoadingState that leaves the loading state to the caller.
NeedsLoadingStateNever(st, song_info) == FALSE

\* load_lyrics_for_song: whether the loading state still has to be set.
NeedsLoadingState(st, song_info) ==
    st.current_song # Some(song_info) \/ ~st.is_loading

\* load_lyrics_for_song up to the call of search_and_get_lyrics.
BeginLoad(ms, song_info) ==
    IF NeedsLoadingState(ms.state, song_info)
    THEN Ms(LyricsState(Some(song_info), None, TRUE, None, 0), ms.cache,
            ms.emitted \o << LoadingStarted(song_info) >>, ms.cursor)
    ELSE ms

\* Variant of FinishLoad that emits the event and leaves LyricsState as it is.
FinishLoadEventOnly(ms, song_info, result) ==
    Ms(ms.state, ms.cache,
       ms.emitted \o << IF result.ok
                        THEN LoadingCompleted(song_info, result.lyrics)
                        ELSE LoadingFailed(song_info, result.error) >>,
       ms.cursor)

\* Variant of FinishLoad that applies the result to LyricsState only while the
\* song is still the current one.
FinishLoadIfCurrent(ms, song_info, result) ==
    IF ms.state.current_song = Some(song_info)
    THEN LET st == [ms.state EXCEPT
                      !.current_lyrics = IF result.ok THEN Some(result.lyrics) ELSE @,
                      !.is_loading = FALSE]
         IN  Ms(st, ms.cache, FinishLoadEventOnly(ms, song_info, result).emitted,
                ms.cursor)
    ELSE FinishLoadEventOnly(ms, song_info, result)

\* load_lyrics_for_song from the return of search_and_get_lyrics.
FinishLoad(ms, song_info, result) ==
    IF result.ok
    THEN LET lyrics_data == result.lyrics
             cache1 == IF IsSome(lyrics_data.original)
                       THEN MapInsert(ms.cache, song_info,
                                      ParseLyricsToTimestamps(lyrics_data.original[1]))
                       ELSE ms.cache
             ms1 == Ms([ms.state EXCEPT !.current_lyrics = Some(lyrics_data),
                                        !.is_loading = FALSE],
                       cache1,
                       ms.emitted \o << LoadingCompleted(song_info, lyrics_data) >>,
                       ms.cursor)
         IN  UpdateCurrentLyricsLine(ms1, ms1.state.current_position)
    ELSE Ms([ms.state EXCEPT !.is_loading = FALSE], ms.cache,
            ms.emitted \o << LoadingFailed(song_info, result.error) >>, ms.cursor)

\* Where the main loop stands: at its select!, or inside the handler of one
\* channel, suspended in load_lyrics_for_song until retrieval returns.
AtSelect == [at |-> "select", handler |-> "none", song_info |-> NoSongInfo,
             position |-> None]
AwaitRetrieval(handler, song_info, position) ==
    [at |-> "retrieval", handler |-> handler, song_info |-> song_info,
     position |-> position]

\* What a handler leaves: the orchestrator's data and where the loop stands.
Handled(ms, next) == [ms |-> ms, next |-> next]

\* Variant of IsDifferentSong that never recognises the current song.
IsDifferentSongAlways(st, song_info) == TRUE

\* handle_playback_event: the comparison with LyricsState.current_song.
IsDifferentSong(st, song_info) == st.current_song # Some(song_info)

\* handle_media_event: the comparison with LyricsState.current_song.
\* Variant of IsNewSong that takes every snapshot for a new song.
IsNewSongAlways(st, song_info) == TRUE

IsNewSong(st, song_info) == st.current_song # Some(song_info)

\* LyricsManager::handle_playback_event, up to the await of retrieval if any.
HandlePlaybackEvent(ms, event) ==
    CASE event.type = "SongChanged" ->
            LET song_info == SongInfo(event.title, event.artist)
            IN  IF IsDifferentSong(ms.state, song_info)
                THEN Handled(BeginLoad(ms, song_info),
                             AwaitRetrieval("playback", song_info, None))
                ELSE Handled(ms, AtSelect)
      [] event.type = "PositionUpdate" ->
            Handled(UpdateCurrentPosition(ms, event.position), AtSelect)
      [] event.type = "PlayStateChanged" ->
            LET ms1 == Ms([ms.state EXCEPT !.current_position = event.position],
                          ms.cache, ms.emitted, ms.cursor)
            IN  IF event.is_playing
                THEN Handled(UpdateCurrentLyricsLine(ms1, event.position), AtSelect)
                ELSE Handled(ms1, AtSelect)
      [] OTHER -> Handled(ClearLyrics(ms), AtSelect)

\* MediaEvent
InfoUpdated(media) == [type |-> "InfoUpdated", media |-> media]
MediaStopped == [type |-> "Stopped", media |-> DefaultMedia]

\* LyricsManager::handle_media_event, up to the await of retrieval if any.
HandleMediaEvent(ms, event) ==
    IF event.type = "InfoUpdated"
    THEN LET media_info == event.media
         IN  IF media_info.title # "" /\ media_info.artist # ""
             THEN LET song_info == SongInfo(media_info.title, media_info.artist)
                      old_song == ms.state.current_song
                  IN  IF IsNewSong(ms.state, song_info)
                      THEN LET ms1 == Ms(LyricsState(Some(song_info), None, TRUE, None, 0),
                                         IF IsSome(old_song)
                                         THEN MapRemove(ms.cache, old_song[1])
                                         ELSE ms.cache,
                                         ms.emitted \o << LoadingStarted(song_info) >>,
                                         ms.cursor)
                           IN  Handled(BeginLoad(ms1, song_info),
                                       AwaitRetrieval("media", song_info,
                                                      media_info.position))
                      ELSE IF IsSome(media_info.position)
                      THEN Handled(UpdateCurrentPosition(ms, media_info.position[1]),
                                   AtSelect)
                      ELSE Handled(ms, AtSelect)
             ELSE Handled(ClearLyrics(ms), AtSelect)
    ELSE Handled(ClearLyrics(ms), AtSelect)

\* LyricsManager::refresh_lyrics, up to the await of retrieval if any.
RefreshLyrics(ms) ==
    IF IsSome(ms.state.current_song)
    THEN LET song_info == ms.state.current_song[1]
             ms1 == Ms(ms.state, MapRemove(ms.cache, song_info), ms.emitted, ms.cursor)
         IN  Handled(BeginLoad(ms1, song_info),
                     AwaitRetrieval("refresh", song_info, None))
    ELSE Handled(ms, AtSelect)

\* The rest of the suspended handler once retrieval has returned.
ResumeHandler(ms, pc, result) ==
    LET ms1 == FinishLoad(ms, pc.song_info, result)
    IN  IF pc.handler = "media" /\ IsSome(pc.position)
        THEN UpdateCurrentPosition(ms1, pc.position[1])
        ELSE ms1

\* Book-keeping over the events of one step, in order: a LoadingStarted opens
\* a load of its song, a LoadingCompleted or LoadingFailed closes it.
RECURSIVE TrackLoads(_, _)
TrackLoads(events, acc) ==
    IF events = << >>
    THEN acc
    ELSE LET e == Head(events)
         IN  TrackLoads(Tail(events),
                CASE e.type = "LoadingStarted" ->
                        [open |-> acc.open \cup {e.song_info}, bad |-> acc.bad]
                  [] e.type \in {"LoadingCompleted", "LoadingFailed"} ->
                        [open |-> acc.open \ {e.song_info},
                         bad |-> acc.bad \/ e.song_info \notin acc.open]
                  [] OTHER -> acc)

ManagerCall(handler, playback, media) ==
    [handler |-> handler, playback |-> playback, media |-> media]
NoManagerCall == ManagerCall("none", ResetEvent, MediaStopped)

\* The orchestrator's data at the start of a handler call.
Ms0 == Ms(state, parsed_lyrics_cache, << >>, None)

\* The variables after a handler call that left ms.
CommitManager(ms, call) ==
    /\ state' = ms.state
    /\ parsed_lyrics_cache' = ms.cache
    /\ lyrics_emitted' = ms.emitted
    /\ lyrics_event' = IF ms.emitted = << >> THEN lyrics_event ELSE Last(ms.emitted)
    /\ lyrics_changed' = IF ms.emitted = << >> THEN lyrics_changed ELSE TRUE
    /\ cursor_update' = ms.cursor
    /\ LET t == TrackLoads(ms.emitted, [open |-> open_loads, bad |-> unannounced])
       IN  /\ open_loads' = t.open
           /\ unannounced' = t.bad
    /\ manager_call' = call

\* A step in which the orchestrator runs no handler.
ManagerIdle ==
    /\ manager_call' = NoManagerCall
    /\ lyrics_emitted' = << >>
    /\ cursor_update' = None
    /\ UNCHANGED << state, parsed_lyrics_cache, lyrics_event, lyrics_changed,
                    open_loads, unannounced >>

\* A step in which the tracker is not called.
TimerIdle ==
    /\ timer_call' = TimerCall("none", DefaultMedia)
    /\ timer_emitted' = << >>
    /\ UNCHANGED << is_playing, base_position_ms, duration_ms, last_update_timestamp,
                    current_song, now, playback_event, playback_changed >>

\* LyricsManager::new
ManagerInit ==
    /\ state = DefaultLyricsState
    /\ parsed_lyrics_cache = EmptyMap
    /\ lyrics_event = Cleared
    /\ lyrics_changed = FALSE
    /\ lyrics_emitted = << >>
    /\ manager_call = NoManagerCall
    /\ cursor_update = None
    /\ open_loads = {}
    /\ unannounced = FALSE

\* =============================================================== LyricsCache
\* Times of the cache are hours of Utc::now().
\* str::trim and str::to_lowercase on the strings of the model.
Trim(str) ==
    CASE str = " S1 " -> "S1"
      [] str = " " -> ""
      [] str = "A1 " -> "A1"
      [] OTHER -> str
ToLowercase(str) ==
    CASE str = "S1" -> "s1"
      [] str = "A1" -> "a1"
      [] OTHER -> str

\* SongInfo::is_valid
IsValid(song_info) == Trim(song_info.title) # "" /\ Trim(song_info.artist) # ""

\* SongInfo::cache_key: the text that is hashed (SHA-256 is taken as injective).
CacheKey(song_info) ==
    ToLowercase(Trim(song_info.title)) \o "|" \o ToLowercase(Trim(song_info.artist))

\* A file of the cache directory, named by its key. content is "entry" for a
\* serialised CacheEntry (of which lyrics_data and expires_at are kept) and
\* "garbage" for a file that cannot be read or does not decode. cache_files
\* lists the files oldest-modified first.
CacheFile(key, content, lyrics_data, expires_at) ==
    [key |-> key, content |-> content, lyrics_data |-> lyrics_data,
     expires_at |-> expires_at]

\* CacheEntry::new
CacheEntry(song_info, lyrics_data, t) ==
    CacheFile(CacheKey(song_info), "entry", lyrics_data, t + TtlHours)

\* Variant of IsExpired that takes every entry as expired.
IsExpiredAlways(entry, t) == TRUE

\* Variant of IsExpired that takes an entry as expired at its expiry time.
IsExpiredInclusive(entry, t) == t >= entry.expires_at

\* CacheEntry::is_expired
IsExpired(entry, t) == t > entry.expires_at

\* The cache inside one call: the directory and last_cleanup.
Cs(files, last) == [files |-> files, last_cleanup |-> last]

FileOf(files, key) ==
    LET found == SelectSeq(files, LAMBDA f : f.key = key)
    IN  IF found = << >> THEN None ELSE Some(found[1])

WithoutKey(files, key) == SelectSeq(files, LAMBDA f : f.key # key)

\* Variant of RemoveFromDisk that leaves the file in place.
RemoveFromDiskKeeps(files, key) == files

\* LyricsCache::remove_from_disk
RemoveFromDisk(files, key) == WithoutKey(files, key)

\* LyricsCache::cleanup_expired
CleanupExpired(cs, t) ==
    Cs(SelectSeq(cs.files, LAMBDA f : f.content = "entry" /\ ~IsExpired(f, t)),
       Some(t))

\* Variant of ShouldCleanup that waits until the interval is exceeded.
ShouldCleanupStrict(last, t) ==
    IF IsSome(last) THEN t - last[1] > CleanupIntervalHours ELSE TRUE

\* LyricsCache::maybe_cleanup: whether the sweep is due.
ShouldCleanup(last, t) ==
    IF IsSome(last) THEN t - last[1] >= CleanupIntervalHours ELSE TRUE

\* LyricsCache::maybe_cleanup
MaybeCleanup(cs, t) == IF ShouldCleanup(cs.last_cleanup, t) THEN CleanupExpired(cs, t) ELSE cs

\* LyricsCache::get: the cache it leaves and the document it returns.
CacheGet(cs, song_info, t) ==
    LET cache_key == CacheKey(song_info)
        cs1 == MaybeCleanup(cs, t)
        file == FileOf(cs1.files, cache_key)
    IN  IF file = None
        THEN [cache |-> cs1, value |-> None]
        ELSE IF file[1].content # "entry"
        THEN [cache |-> cs1, value |-> None]
        ELSE IF ~IsExpired(file[1], t)
        THEN [cache |-> cs1, value |-> Some(file[1].lyrics_data)]
        ELSE [cache |-> Cs(RemoveFromDisk(cs1.files, cache_key), cs1.last_cleanup),
              value |-> None]

\* Variant of CleanupOldestFiles that removes the newest files.
CleanupNewestFiles(files) ==
    LET target_count == (max_files * 3) \div 4
    IN  SubSeq(files, 1, Min(target_count, Len(files)))

\* LyricsCache::cleanup_oldest_files
CleanupOldestFiles(files) ==
    LET target_count == (max_files * 3) \div 4
        files_to_remove == SatSub(Len(files), target_count)
    IN  SubSeq(files, files_to_remove + 1, Len(files))

\* LyricsCache::cleanup_if_needed
CleanupIfNeeded(files) ==
    IF Len(files) > max_files THEN CleanupOldestFiles(files) ELSE files

\* LyricsCache::put: the cache it leaves and whether it returned Ok.
CachePut(cs, song_info, lyrics_data, t, write_fails) ==
    IF write_fails
    THEN [cache |-> cs, ok |-> FALSE]
    ELSE LET entry == CacheEntry(song_info, lyrics_data, t)
             written == WithoutKey(cs.files, entry.key) \o << entry >>
         IN  [cache |-> Cs(CleanupIfNeeded(written), cs.last_cleanup), ok |-> TRUE]

\* ================================================================= providers
\* What the provider's two HTTP exchanges yield: the search finds a song, finds
\* none or fails; the lyrics payload has text, is blank, does not decode or
\* the request fails; deadline tells whether the service's timeout fired first.
ProviderResponse(deadline, search, lyrics) ==
    [deadline |-> deadline, search |-> search, lyrics |-> lyrics]
ProviderResponses ==
    { ProviderResponse(FALSE, "Found", l) :
        l \in {"Content", "Blank"} }
    \cup { ProviderResponse(FALSE, s, "Blank") : s \in {"NoSong", "NetworkError"} }
    \cup { ProviderResponse(TRUE, "Found", "Content") }

\* LyricsData::has_any_content; a text is blank when it holds no tagged line
\* and no line with content.
IsBlankText(text) == \A i \in 1..Len(text) : ~text[i].tagged /\ text[i].content = ""
HasAnyContent(lyrics_data) ==
    \/ IsSome(lyrics_data.original) /\ ~IsBlankText(lyrics_data.original[1])
    \/ IsSome(lyrics_data.translated) /\ ~IsBlankText(lyrics_data.translated[1])
    \/ IsSome(lyrics_data.romanized) /\ ~IsBlankText(lyrics_data.romanized[1])

\* LyricsData::from_netease_response / from_qqmusic_response on a payload.
ProviderDoc(provider, lyrics) ==
    IF lyrics = "Content"
    THEN IF provider = "NetEase" THEN DocThreeLines ELSE DocWithGap
    ELSE LyricsData(None, None, None, provider)

\* parse_lyrics_response of either provider
ParseLyricsResponse(provider, lyrics) ==
    IF lyrics = "JsonParseError"
    THEN Err("JsonParseError")
    ELSE IF ~HasAnyContent(ProviderDoc(provider, lyrics))
    THEN Err("LyricsNotFound")
    ELSE Ok(ProviderDoc(provider, lyrics))

\* NetEaseApi::search_and_get_lyrics / QQMusicApi::search_and_get_lyrics
ProviderSearchAndGetLyrics(provider, response) ==
    IF response.search \notin {"Found", "NoSong"}
    THEN Err(response.search)
    ELSE IF response.search = "NoSong"
    THEN Err("SongNotFound")
    ELSE ParseLyricsResponse(provider, response.lyrics)

\* ---------------------------------------------------- search response text
\* A response text is the sequence of its characters, all ASCII, so that a
\* byte offset and a character index are the same number. Positions count
\* from 0 as in the source.
Slice(s, a, b) == SubSeq(s, a + 1, b)
SliceFrom(s, a) == SubSeq(s, a + 1, Len(s))
CharAt(s, i) == IF i < Len(s) THEN Some(s[i + 1]) ELSE None
EndsWith(s, pat) == Len(s) >= Len(pat) /\ SliceFrom(s, Len(s) - Len(pat)) = pat
\* str::find
StrFind(s, pat) ==
    LET hits == { i \in 0..(Len(s) - Len(pat)) : Slice(s, i, i + Len(pat)) = pat }
    IN  IF hits = {} THEN None ELSE Some(CHOOSE i \in hits : \A j \in hits : i <= j)

AsciiDigits == {"0", "1", "2", "3", "4", "5", "6", "7", "8", "9"}
Whitespace == {" "}
IsAsciiDigit(c) == c \in AsciiDigits
IsWhitespace(c) == c \in Whitespace
AllAsciiDigits(s) == \A i \in 1..Len(s) : IsAsciiDigit(s[i])

\* The literals the parsers search for.
KeySong == << "\"", "s", "o", "n", "g", "\"", ":" >>
KeyList == << "\"", "l", "i", "s", "t", "\"", ":" >>
KeySongid == << "\"", "s", "o", "n", "g", "i", "d", "\"", ":" >>
KeySongmid == << "\"", "s", "o", "n", "g", "m", "i", "d", "\"", ":" >>
KeySongsArray == << "\"", "s", "o", "n", "g", "s", "\"", ":" >>
QuotedId == << "\"", "i", "d", "\"" >>

\* LyricsResult<Option<SearchResult>>: the candidate, none, or an error.
SearchOk(value) == [ok |-> TRUE, value |-> value, error |-> ""]
SearchErr(error) == [ok |-> FALSE, value |-> None, error |-> error]
QQSearchResult(song_id, song_mid) == [song_id |-> song_id, song_mid |-> song_mid]
SearchResult(id) == [id |-> id]

\* The loops of extract_numeric_field and extract_string_field: the first
\* position from pos on whose character is not one of chars, and the first
\* position from pos on whose character is ch.
RECURSIVE SkipWhile(_, _, _)
SkipWhile(json, pos, chars) ==
    IF pos < Len(json) /\ json[pos + 1] \in chars
    THEN SkipWhile(json, pos + 1, chars)
    ELSE pos
RECURSIVE SkipUntil(_, _, _)
SkipUntil(json, pos, ch) ==
    IF pos < Len(json) /\ json[pos + 1] # ch
    THEN SkipUntil(json, pos + 1, ch)
    ELSE pos

\* QQMusicApi::extract_numeric_field
ExtractNumericField(json, search_key) ==
    LET field_pos == StrFind(json, search_key)
    IN  IF field_pos = None
        THEN << >>
        ELSE LET start_pos == field_pos[1] + Len(search_key)
                 current_pos == SkipWhile(json, start_pos, Whitespace)
                 end_pos == SkipWhile(json, current_pos, AsciiDigits)
             IN  IF end_pos > current_pos THEN Slice(json, current_pos, end_pos)
                 ELSE << >>

\* QQMusicApi::extract_string_field
ExtractStringField(json, search_key) ==
    LET field_pos == StrFind(json, search_key)
    IN  IF field_pos = None
        THEN << >>
        ELSE LET start_pos == field_pos[1] + Len(search_key)
                 current_pos == SkipWhile(json, start_pos, Whitespace)
             IN  IF current_pos < Len(json) /\ CharAt(json, current_pos) = Some("\"")
                 THEN LET end_pos == SkipUntil(json, current_pos + 1, "\"")
                      IN  IF end_pos < Len(json)
                          THEN Slice(json, current_pos + 1, end_pos)
                          ELSE << >>
                 ELSE << >>

\* parse_search_response_manual of QQMusicApi: the loop that looks for the
\* end of the object.
RECURSIVE BraceScan(_, _, _)
BraceScan(response, obj_end, brace_count) ==
    IF obj_end < Len(response) /\ brace_count > 0
    THEN BraceScan(response, obj_end + 1,
                   CASE CharAt(response, obj_end) = Some("{") -> brace_count + 1
                     [] CharAt(response, obj_end) = Some("}") -> brace_count - 1
                     [] OTHER -> brace_count)
    ELSE [obj_end |-> obj_end, brace_count |-> brace_count]

\* QQMusicApi::parse_search_response_manual
QQParseSearchResponseManual(response) ==
    LET song_pos == StrFind(response, KeySong)
    IN  IF song_pos = None
        THEN SearchErr("InternalError")
        ELSE
    LET list_in == StrFind(SliceFrom(response, song_pos[1]), KeyList)
    IN  IF list_in = None
        THEN SearchErr("InternalError")
        ELSE
    LET list_pos == song_pos[1] + list_in[1]
        array_start == StrFind(SliceFrom(response, list_pos), << "[" >>)
        obj_start == IF array_start = None THEN None
                     ELSE StrFind(SliceFrom(response, list_pos + array_start[1]),
                                  << "{" >>)
    IN  IF obj_start = None
        THEN SearchErr("SongNotFound")
        ELSE
    LET first_song_start == list_pos + array_start[1] + obj_start[1]
        scan == BraceScan(response, first_song_start + 1, 1)
    IN  IF scan.brace_count # 0
        THEN SearchErr("InternalError")
        ELSE
    LET song_object == Slice(response, first_song_start, scan.obj_end)
        song_id == ExtractNumericField(song_object, KeySongid)
        song_mid == ExtractStringField(song_object, KeySongmid)
    IN  IF song_id # << >> /\ song_mid # << >>
        THEN SearchOk(Some(QQSearchResult(song_id, song_mid)))
        ELSE SearchOk(None)

\* NetEaseApi::extract_first_song_id: the loop over the characters of
\* songs_section from index i on, with its four local variables; st.found
\* is the value returned from inside the loop, if any.
Scan(in_id_field, id_value_start, in_quotes, escape_next, found) ==
    [in_id_field |-> in_id_field, id_value_start |-> id_value_start,
     in_quotes |-> in_quotes, escape_next |-> escape_next, found |-> found]

\* One turn of the loop, at character ch of index byte_idx.
ScanChar(songs_section, byte_idx, ch, st) ==
    IF st.escape_next
    THEN [st EXCEPT !.escape_next = FALSE]
    ELSE IF ch = "\\"
    THEN [st EXCEPT !.escape_next = TRUE]
    ELSE IF ch = "\""
    THEN IF st.in_id_field /\ ~st.in_quotes
         THEN [st EXCEPT !.in_quotes = TRUE]
         ELSE IF st.in_quotes
         THEN LET id_str == IF IsSome(st.id_value_start)
                            THEN Slice(songs_section, st.id_value_start[1], byte_idx)
                            ELSE << >>
              IN  IF IsSome(st.id_value_start) /\ AllAsciiDigits(id_str)
                     /\ id_str # << >>
                  THEN [st EXCEPT !.found = Some(id_str)]
                  ELSE Scan(FALSE, None, FALSE, st.escape_next, None)
         ELSE st
    ELSE IF ch = ":" /\ ~st.in_quotes
    THEN IF EndsWith(Slice(songs_section, 0, byte_idx), QuotedId)
         THEN [st EXCEPT !.in_id_field = TRUE]
         ELSE st
    ELSE IF st.in_id_field /\ ~st.in_quotes /\ IsAsciiDigit(ch)
    THEN IF st.id_value_start = None
         THEN [st EXCEPT !.id_value_start = Some(byte_idx)]
         ELSE st
    ELSE IF st.in_id_field /\ ~st.in_quotes /\ ~IsAsciiDigit(ch) /\ ~IsWhitespace(ch)
    THEN LET id_str == IF IsSome(st.id_value_start)
                       THEN Slice(songs_section, st.id_value_start[1], byte_idx)
                       ELSE << >>
         IN  IF IsSome(st.id_value_start) /\ id_str # << >>
             THEN [st EXCEPT !.found = Some(id_str)]
             ELSE Scan(FALSE, None, st.in_quotes, st.escape_next, None)
    ELSE st

RECURSIVE ScanFrom(_, _, _)
ScanFrom(songs_section, byte_idx, st) ==
    IF IsSome(st.found) \/ byte_idx >= Len(songs_section)
    THEN st
    ELSE ScanFrom(songs_section, byte_idx + 1,
                  ScanChar(songs_section, byte_idx, songs_section[byte_idx + 1], st))

\* NetEaseApi::extract_first_song_id
ExtractFirstSongId(response) ==
    LET songs_pos == StrFind(response, KeySongsArray)
    IN  IF songs_pos = None
        THEN None
        ELSE LET songs_start == songs_pos[1] + 8
                 songs_section == SliceFrom(response, songs_start)
                 st == ScanFrom(songs_section, 0, Scan(FALSE, None, FALSE, FALSE, None))
             IN  IF IsSome(st.found)
                 THEN st.found
                 ELSE IF IsSome(st.id_value_start)
                 THEN LET id_str == SliceFrom(songs_section, st.id_value_start[1])
                      IN  IF AllAsciiDigits(id_str) /\ id_str # << >>
                          THEN Some(id_str)
                          ELSE None
                 ELSE None

\* NetEaseApi::parse_search_response_manual
NetEaseParseSearchResponseManual(response) ==
    LET id == ExtractFirstSongId(response)
    IN  IF IsSome(id) /\ id[1] # << >> /\ id[1] # << "0" >>
        THEN SearchOk(Some(SearchResult(id[1])))
        ELSE SearchOk(None)

\* ============================================================= LyricsService
\* fetch_lyrics_from_apis between two providers: found is the document
\* returned so far, last_error the error recorded so far, queried the
\* providers asked so far, in order, each with the response it gave.
Fetch(found, last_error, queried) ==
    [found |-> found, last_error |-> last_error, queried |-> queried]
Query(provider, response) == [provider |-> provider, response |-> response]

\* One provider's block of fetch_lyrics_from_apis.
TryProvider(fetch, provider, enabled, response) ==
    IF IsSome(fetch.found) \/ ~enabled
    THEN fetch
    ELSE LET queried == fetch.queried \o << Query(provider, response) >>
             result == ProviderSearchAndGetLyrics(provider, response)
         IN  IF response.deadline
             THEN Fetch(None, Some("Timeout"), queried)
             ELSE IF result.ok
             THEN IF HasAnyContent(result.lyrics)
                  THEN Fetch(Some(result.lyrics), fetch.last_error, queried)
                  ELSE Fetch(None, fetch.last_error, queried)
             ELSE Fetch(None, Some(result.error), queried)

\* Variant of ProviderOrder that asks QQMusic first.
ProviderOrderReversed == << "QQMusic", "NetEase" >>

\* fetch_lyrics_from_apis: the order of its two blocks.
ProviderOrder == << "NetEase", "QQMusic" >>

\* LyricsService::fetch_lyrics_from_apis
FetchLyricsFromApis(enabled, responses) ==
    LET first == ProviderOrder[1]
        second == ProviderOrder[2]
        f1 == TryProvider(Fetch(None, None, << >>), first, enabled[first], responses[first])
        f2 == TryProvider(f1, second, enabled[second], responses[second])
    IN  [result |-> IF IsSome(f2.found)
                    THEN Ok(f2.found[1])
                    ELSE Err(IF IsSome(f2.last_error) THEN f2.last_error[1]
                             ELSE "LyricsNotFound"),
         queried |-> f2.queried]

\* What one call of search_and_get_lyrics did: its argument, its result, the
\* document cache.get returned, the providers queried, and the entry handed
\* to cache.put with the outcome of that put.
ServiceCall(song_info, result, cache_hit, queried, put, put_ok) ==
    [song_info |-> song_info, result |-> result, cache_hit |-> cache_hit,
     queried |-> queried, put |-> put, put_ok |-> put_ok]
NoServiceCall == ServiceCall(NoSongInfo, Err(""), None, << >>, None, FALSE)

Providers == {"NetEase", "QQMusic"}

\* What one call of LyricsCache::get or LyricsCache::put did: the operation,
\* its identity and its cache key, the document handed to put, whether put
\* returned Ok, and what get returned.
CacheCall(op, song_info, lyrics_data, ok, value) ==
    [op |-> op, song_info |-> song_info, key |-> CacheKey(song_info),
     lyrics_data |-> lyrics_data, ok |-> ok, value |-> value]
NoCacheCall ==
    [op |-> "none", song_info |-> NoSongInfo, key |-> "",
     lyrics_data |-> DefaultLyricsData, ok |-> FALSE, value |-> None]

\* A put that stored an entry: the document and the time of the write.
Written(lyrics_data, at) == [lyrics_data |-> lyrics_data, at |-> at]

\* The record of stored entries after a put: a put whose write raised the
\* number of files above max_files ran the eviction, after which no earlier
\* write is taken as still stored.
WrittenAfterPut(written, files, song_info, lyrics_data, t, ok) ==
    LET key == CacheKey(song_info)
        count == Len(WithoutKey(files, key)) + 1
    IN  IF ~ok
        THEN written
        ELSE IF count > max_files
        THEN [k \in DOMAIN written |-> None]
        ELSE [written EXCEPT ![key] = Some(Written(lyrics_data, t))]

\* Variant of ResultAfterPut that returns the error of the put.
ResultAfterPutPropagates(lyrics_data, put) ==
    IF put.ok THEN Ok(lyrics_data) ELSE Err("CacheError")

\* search_and_get_lyrics from the return of cache.put: an Err is logged, and
\* the fetched document is returned.
ResultAfterPut(lyrics_data, put) == Ok(lyrics_data)

\* LyricsService::search_and_get_lyrics
search_and_get_lyrics(song_info, responses, write_fails) ==
    LET cs == Cs(cache_files, last_cleanup)
        enabled == [p \in Providers |->
                      IF p = "NetEase" THEN enable_netease ELSE enable_qqmusic]
    IN  IF ~IsValid(song_info)
        THEN /\ service_call' = ServiceCall(song_info, Err("InvalidSongInfo"), None,
                                            << >>, None, FALSE)
             /\ UNCHANGED << cache_files, last_cleanup, cache_written >>
        ELSE LET got == CacheGet(cs, song_info, utc_now)
             IN  IF IsSome(got.value)
                 THEN /\ service_call' = ServiceCall(song_info, Ok(got.value[1]),
                                                     got.value, << >>, None, FALSE)
                      /\ cache_files' = got.cache.files
                      /\ last_cleanup' = got.cache.last_cleanup
                      /\ UNCHANGED cache_written
                 ELSE LET fetched == FetchLyricsFromApis(enabled, responses)
                      IN  IF ~fetched.result.ok
                          THEN /\ service_call' =
                                    ServiceCall(song_info, fetched.result, None,
                                                fetched.queried, None, FALSE)
                               /\ cache_files' = got.cache.files
                               /\ last_cleanup' = got.cache.last_cleanup
                               /\ UNCHANGED cache_written
                          ELSE LET put == CachePut(got.cache, song_info,
                                                   fetched.result.lyrics, utc_now,
                                                   write_fails)
                               IN  /\ service_call' =
                                        ServiceCall(song_info,
                                                    ResultAfterPut(fetched.result.lyrics,
                                                                   put),
                                                    None,
                                                    fetched.queried,
                                                    Some(CacheEntry(song_info,
                                                           fetched.result.lyrics,
                                                           utc_now)),
                                                    put.ok)
                                   /\ cache_files' = put.cache.files
                                   /\ last_cleanup' = put.cache.last_cleanup
                                   /\ cache_written' =
                                        WrittenAfterPut(cache_written, got.cache.files,
                                                        song_info, fetched.result.lyrics,
                                                        utc_now, put.ok)

ServiceSongs ==
    { SongInfo("s1", "a1"), SongInfo(" S1 ", "a1"), SongInfo("s2", "a1"),
      SongInfo(" ", "a1") }
UtcDeltas == {13, 26}

\* The identities handed to the cache directly.
CacheSongs ==
    { SongInfo("s1", "a1"), SongInfo(" S1 ", "a1"), SongInfo("s2", "a1"),
      SongInfo("s3", "a1") }
CacheKeys == { CacheKey(song_info) : song_info \in CacheSongs \cup ServiceSongs }
CacheDocs == { DocThreeLines, DocWithGap }

\* LyricsCache::new with max_files = files, and LyricsServiceBuilder::build
\* with the two enable flags.
ServiceNew(files, netease, qqmusic) ==
    /\ cache_files = << >>
    /\ last_cleanup = None
    /\ utc_now = 0
    /\ enable_netease = netease
    /\ enable_qqmusic = qqmusic
    /\ service_call = NoServiceCall
    /\ max_files = files
    /\ cache_call = NoCacheCall
    /\ cache_written = [k \in CacheKeys |-> None]

\* The service as the application builds it: both providers enabled.
ServiceInit == ServiceNew(MaxFiles, TRUE, TRUE)

ServiceSearch ==
    /\ \E song_info \in ServiceSongs, ne \in ProviderResponses, qq \in ProviderResponses,
          write_fails \in BOOLEAN :
         search_and_get_lyrics(song_info,
                               [p \in Providers |-> IF p = "NetEase" THEN ne ELSE qq],
                               write_fails)
    /\ cache_call' = NoCacheCall
    /\ UNCHANGED << utc_now, enable_netease, enable_qqmusic, max_files >>
    /\ UNCHANGED << timer_vars, manager_vars, app_vars, http_vars, pure_vars, race_vars,
                    task_vars >>

\* Utc::now() moves on.
ServiceAdvance ==
    /\ \E d \in UtcDeltas :
         /\ utc_now + d <= MaxUtcHours
         /\ utc_now' = utc_now + d
    /\ service_call' = NoServiceCall
    /\ cache_call' = NoCacheCall
    /\ UNCHANGED << cache_files, last_cleanup, enable_netease, enable_qqmusic,
                    max_files, cache_written >>
    /\ UNCHANGED << timer_vars, manager_vars, app_vars, http_vars, pure_vars, race_vars,
                    task_vars >>

\* A file of the cache directory is damaged from outside: it can no longer be
\* read, or its text no longer decodes.
CacheFileDamaged ==
    /\ \E i \in 1..Len(cache_files) :
         /\ cache_files[i].content = "entry"
         /\ cache_files' = [cache_files EXCEPT
                               ![i] = CacheFile(@.key, "garbage", DefaultLyricsData, 0)]
         /\ cache_written' = [cache_written EXCEPT ![cache_files[i].key] = None]
    /\ service_call' = NoServiceCall
    /\ cache_call' = NoCacheCall
    /\ UNCHANGED << last_cleanup, utc_now, enable_netease, enable_qqmusic, max_files >>
    /\ UNCHANGED << timer_vars, manager_vars, app_vars, http_vars, pure_vars, race_vars,
                    task_vars >>

\* ================================================================ HttpClient
\* What one exchange with the server yields: a response with a status code,
\* whose body can be read or not, or a transport failure of reqwest.
HttpStatus(code, text) == [kind |-> "status", code |-> code, text |-> text, what |-> ""]
HttpTransport(what) == [kind |-> "transport", code |-> 0, text |-> FALSE, what |-> what]
HttpAnswers ==
    { HttpStatus(200, TRUE), HttpStatus(200, FALSE), HttpStatus(429, TRUE),
      HttpStatus(503, TRUE), HttpStatus(404, TRUE) }
    \cup { HttpTransport(what) : what \in {"timeout", "connect", "other"} }

HttpOk(text) == [ok |-> TRUE, text |-> text, error |-> ""]
HttpErr(error) == [ok |-> FALSE, text |-> "", error |-> error]

\* HttpClient::classify_error
ClassifyError(what) ==
    IF what = "timeout" THEN "Timeout"
    ELSE IF what = "connect" THEN "ServiceUnavailable"
    ELSE "NetworkError"

\* HttpClient::execute_request
ExecuteRequest(answer) ==
    IF answer.kind = "transport"
    THEN HttpErr(ClassifyError(answer.what))
    ELSE IF answer.code \in 200..299
    THEN IF answer.text THEN HttpOk("body") ELSE HttpErr("NetworkError")
    ELSE IF answer.code = 429
    THEN HttpErr("RateLimited")
    ELSE IF answer.code \in 500..599
    THEN HttpErr("ServiceUnavailable")
    ELSE HttpErr("ApiError")

\* calculate_retry_delay: the range fastrand::u64 draws the jitter from.
JitterRange(attempt) == (BaseDelayMs * 2^attempt) \div 4
Jitters(attempt) == 0..(JitterRange(attempt) * 2)

\* Variant of CalculateRetryDelay that adds the jitter to the whole delay.
CalculateRetryDelayAbove(attempt, jitter) ==
    Min(BaseDelayMs * 2^attempt + jitter, MaxDelayMs)

\* HttpClient::calculate_retry_delay with the jitter drawn.
CalculateRetryDelay(attempt, jitter) ==
    LET exponential_delay == BaseDelayMs * 2^attempt
        jitter_range == exponential_delay \div 4
        delay_with_jitter == SatSub(exponential_delay, jitter_range) + jitter
    IN  Min(delay_with_jitter, MaxDelayMs)

\* LyricsError::retry_delay_ms
RetryDelayMs(error, attempt) ==
    IF error = "RateLimited" THEN RateLimitedDelayMs
    ELSE IF error = "ServiceUnavailable" THEN ServiceUnavailableDelayMs
    ELSE Min(BaseDelayMs * 2^attempt, MaxDelayMs)

\* Variant of MayRetry that allows one more retry.
MayRetryInclusive(attempt) == attempt <= http_max_retries

\* request_with_retry: whether a failed attempt is followed by another.
MayRetry(attempt) == attempt < http_max_retries

\* HttpClient::new with max_retries = retries; no call is in progress.
HttpNew(retries) ==
    /\ http_max_retries = retries
    /\ http_pc = "idle"
    /\ http_attempt = 0
    /\ http_last_error = None
    /\ http_delay = 0
    /\ http_log = << >>
    /\ http_result = None

\* The client as the service builds it: HttpClientConfig::default().
HttpInit == HttpNew(DefaultMaxRetries)

\* HttpClient::get is called: the URL is parsed and the loop is entered.
HttpGet ==
    /\ http_pc \in {"idle", "returned"}
    /\ \E url_parses \in BOOLEAN :
         IF url_parses
         THEN /\ http_pc' = "request"
              /\ http_result' = None
         ELSE /\ http_pc' = "returned"
              /\ http_result' = Some(HttpErr("UrlParseError"))
    /\ http_attempt' = 0
    /\ http_last_error' = None
    /\ http_delay' = 0
    /\ http_log' = << >>
    /\ UNCHANGED http_max_retries
    /\ UNCHANGED << timer_vars, manager_vars, app_vars, service_vars, pure_vars, race_vars,
                    task_vars >>

\* One pass of the loop body: execute_request and the match on its result,
\* up to the return, the sleep or the end of the loop.
HttpAttempt ==
    /\ http_pc = "request"
    /\ \E answer \in HttpAnswers :
         LET response == ExecuteRequest(answer)
         IN  /\ http_log' = Append(http_log, response)
             /\ IF response.ok
                THEN /\ http_result' = Some(response)
                     /\ http_pc' = "returned"
                     /\ UNCHANGED << http_last_error, http_delay >>
                ELSE /\ http_last_error' = Some(response.error)
                     /\ IF MayRetry(http_attempt)
                        THEN /\ \E jitter \in Jitters(http_attempt) :
                                  http_delay' = CalculateRetryDelay(http_attempt, jitter)
                             /\ http_pc' = "sleep"
                             /\ UNCHANGED http_result
                        ELSE /\ http_result' = Some(HttpErr(response.error))
                             /\ http_pc' = "returned"
                             /\ UNCHANGED http_delay
    /\ UNCHANGED << http_max_retries, http_attempt >>
    /\ UNCHANGED << timer_vars, manager_vars, app_vars, service_vars, pure_vars, race_vars,
                    task_vars >>

\* The sleep between two attempts ends and the loop goes to the next attempt.
HttpSleepEnds ==
    /\ http_pc = "sleep"
    /\ http_pc' = "request"
    /\ http_attempt' = http_attempt + 1
    /\ http_delay' = 0
    /\ UNCHANGED << http_max_retries, http_last_error, http_log, http_result >>
    /\ UNCHANGED << timer_vars, manager_vars, app_vars, service_vars, pure_vars, race_vars,
                    task_vars >>

\* The caller's tokio::time::timeout fires and drops the call in progress.
HttpDropped ==
    /\ http_pc \in {"request", "sleep"}
    /\ http_pc' = "idle"
    /\ http_delay' = 0
    /\ UNCHANGED << http_max_retries, http_attempt, http_last_error, http_log,
                    http_result >>
    /\ UNCHANGED << timer_vars, manager_vars, app_vars, service_vars, pure_vars, race_vars,
                    task_vars >>

\* ============================================================ pure functions
\* The function called and its arguments; what it returned, once it has.
PureCall(fn, args) == [fn |-> fn, args |-> args]
NoPureCall == PureCall("none", << >>)

\* No function is being applied.
PureInit ==
    /\ pure_input = NoPureCall
    /\ pure_output = None

\* ===================================================== App::run_event_loop
\* What MediaMonitor::get_current_media_info returns: trimmed, non-blank
\* title and artist with duration, position and status, or nothing, which
\* start_monitoring sends as MediaInfo::default().
MonitorMedia ==
    { MediaInfo(t, "a1", Some(20000), Some(p), s) :
        t \in {"s1", "s2"}, p \in {0, 7000}, s \in {"Playing", "Paused"} }
    \cup { DefaultMedia }
\* Steps of the clock between two steps of the application.
AppDeltas == {50, 100}

AppInit ==
    /\ media_event = MediaStopped
    /\ media_changed = FALSE
    /\ loop_pc = AtSelect
    /\ last_playing_state = FALSE
    /\ update_task = "none"

\* MediaMonitor::start_monitoring: one round of its loop sends a snapshot.
MonitorSends ==
    /\ \E media \in MonitorMedia : media_event' = InfoUpdated(media)
    /\ media_changed' = TRUE
    /\ TimerIdle
    /\ ManagerIdle
    /\ UNCHANGED << loop_pc, last_playing_state, update_task >>
    /\ UNCHANGED << service_vars, http_vars, pure_vars, race_vars,
                    task_vars >>

\* The select! branch of the playback channel.
PlaybackBranch ==
    /\ loop_pc.at = "select"
    /\ playback_changed
    /\ playback_changed' = FALSE
    /\ timer_call' = TimerCall("none", DefaultMedia)
    /\ timer_emitted' = << >>
    /\ UNCHANGED << is_playing, base_position_ms, duration_ms, last_update_timestamp,
                    current_song, now, playback_event >>
    /\ LET r == HandlePlaybackEvent(Ms0, playback_event)
       IN  /\ CommitManager(r.ms, ManagerCall("playback", playback_event, MediaStopped))
           /\ loop_pc' = r.next
    /\ UNCHANGED << media_event, media_changed, last_playing_state, update_task >>
    /\ UNCHANGED << service_vars, http_vars, pure_vars, race_vars,
                    task_vars >>

\* The select! branch of the media channel: sync_with_media for a snapshot,
\* then handle_media_event.
MediaBranch ==
    /\ loop_pc.at = "select"
    /\ media_changed
    /\ media_changed' = FALSE
    /\ IF media_event.type = "InfoUpdated"
       THEN sync_with_media(media_event.media)
       ELSE TimerIdle
    /\ LET r == HandleMediaEvent(Ms0, media_event)
       IN  /\ CommitManager(r.ms, ManagerCall("media", ResetEvent, media_event))
           /\ loop_pc' = r.next
    /\ UNCHANGED << media_event, last_playing_state, update_task >>
    /\ UNCHANGED << service_vars, http_vars, pure_vars, race_vars,
                    task_vars >>

\* search_and_get_lyrics returns to the suspended handler, which runs to its end.
ResumeStep ==
    /\ loop_pc.at = "retrieval"
    /\ \E result \in RetrievalResults :
         CommitManager(ResumeHandler(Ms0, loop_pc, result),
                       ManagerCall("retrieval", ResetEvent, MediaStopped))
    /\ loop_pc' = AtSelect

RetrievalReturns ==
    /\ ResumeStep
    /\ TimerIdle
    /\ UNCHANGED << media_event, media_changed, last_playing_state, update_task >>
    /\ UNCHANGED << service_vars, http_vars, pure_vars, race_vars,
                    task_vars >>

\* Variant of TakeAndAbort that leaves the task running.
TakeWithoutAbort(task) == task

\* The supervisor's update_task.take() followed by task.abort(): no handle
\* and no task remain.
TakeAndAbort(task) == "none"

\* The supervisor task: one round of its 500 ms state check.
SupervisorCheck ==
    /\ IF is_playing # last_playing_state
       THEN /\ update_task' = IF is_playing
                              THEN (IF update_task = "none" THEN "check" ELSE update_task)
                              ELSE TakeAndAbort(update_task)
            /\ last_playing_state' = is_playing
       ELSE UNCHANGED << update_task, last_playing_state >>
    /\ TimerIdle
    /\ ManagerIdle
    /\ UNCHANGED << media_event, media_changed, loop_pc >>
    /\ UNCHANGED << service_vars, http_vars, pure_vars, race_vars,
                    task_vars >>

\* The position-advance task at the head of its loop: while timer.is_playing().
UpdateTaskCheck ==
    /\ update_task = "check"
    /\ update_task' = IF is_playing THEN "tick" ELSE "finished"
    /\ TimerIdle
    /\ ManagerIdle
    /\ UNCHANGED << media_event, media_changed, loop_pc, last_playing_state >>
    /\ UNCHANGED << service_vars, http_vars, pure_vars, race_vars,
                    task_vars >>

\* The position-advance task after its interval tick: update_internal_position.
UpdateTaskTick ==
    /\ update_task = "tick"
    /\ update_task' = "check"
    /\ update_internal_position
    /\ ManagerIdle
    /\ UNCHANGED << media_event, media_changed, loop_pc, last_playing_state >>
    /\ UNCHANGED << service_vars, http_vars, pure_vars, race_vars,
                    task_vars >>

AppAdvance ==
    /\ \E d \in AppDeltas : Advance(d)
    /\ ManagerIdle
    /\ UNCHANGED app_vars
    /\ UNCHANGED << service_vars, http_vars, pure_vars, race_vars,
                    task_vars >>

Init ==
    TimerInit /\ ManagerInit /\ AppInit /\ ServiceInit /\ HttpInit /\ PureInit /\ RaceInit
    /\ TaskInit

Next ==
    \/ MonitorSends
    \/ MediaBranch
    \/ PlaybackBranch
    \/ RetrievalReturns
    \/ SupervisorCheck
    \/ UpdateTaskCheck
    \/ UpdateTaskTick
    \/ AppAdvance

Spec == Init /\ [][Next]_vars

\* ------------------------------------------- the application's mirrored state
\* The lyrics branch of the select!: the latest value of the lyrics channel
\* is applied to AppState.lyrics_state.
ApplyLyricsEvent(lyrics_state, event) ==
    CASE event.type = "LoadingStarted" ->
            [lyrics_state EXCEPT !.is_loading = TRUE]
      [] event.type = "LoadingCompleted" ->
            [lyrics_state EXCEPT !.current_lyrics = event.lyrics, !.is_loading = FALSE]
      [] event.type = "LoadingFailed" ->
            [lyrics_state EXCEPT !.is_loading = FALSE]
      [] event.type = "CurrentLineUpdated" ->
            [lyrics_state EXCEPT !.current_line = event.line]
      [] OTHER -> DefaultLyricsState

LyricsBranch ==
    /\ loop_pc.at = "select"
    /\ lyrics_changed
    /\ lyrics_changed' = FALSE
    /\ app_state' = [app_state EXCEPT
                       !.lyrics_state = ApplyLyricsEvent(@, lyrics_event)]
    /\ manager_call' = NoManagerCall
    /\ lyrics_emitted' = << >>
    /\ cursor_update' = None
    /\ UNCHANGED << state, parsed_lyrics_cache, lyrics_event, open_loads, unannounced >>
    /\ TimerIdle
    /\ UNCHANGED << app_vars, suspended, ticker >>
    /\ UNCHANGED << service_vars, http_vars, pure_vars, race_vars >>

\* The sleep branch of the select!: while the tracker is playing the line is
\* recomputed from the mirrored document and the tracker's position.
RecomputeLine(lyrics_state, playing, current_position) ==
    IF playing /\ IsSome(lyrics_state.current_lyrics)
    THEN [lyrics_state EXCEPT
            !.current_line = GetCurrentLyricsLine(lyrics_state.current_lyrics[1],
                                                  current_position)]
    ELSE lyrics_state

TimerBranch ==
    /\ loop_pc.at = "select"
    /\ app_state' = [app_state EXCEPT
                       !.lyrics_state = RecomputeLine(@, is_playing, get_current_position)]
    /\ TimerIdle
    /\ ManagerIdle
    /\ UNCHANGED << app_vars, suspended, ticker >>
    /\ UNCHANGED << service_vars, http_vars, pure_vars, race_vars >>

\* The snapshots and the clock steps of the mirrored application.
MirrorMedia ==
    { MediaInfo("s1", "a1", Some(20000), Some(0), "Playing"),
      MediaInfo("s2", "a1", Some(20000), Some(7000), "Playing"),
      MediaInfo("s1", "a1", Some(20000), Some(7000), "Paused"),
      DefaultMedia }
MirrorDeltas == {100}

MirrorMonitorSends ==
    /\ \E media \in MirrorMedia : media_event' = InfoUpdated(media)
    /\ media_changed' = TRUE
    /\ TimerIdle
    /\ ManagerIdle
    /\ UNCHANGED << loop_pc, last_playing_state, update_task >>
    /\ UNCHANGED << service_vars, http_vars, pure_vars, race_vars, task_vars >>

MirrorAdvance ==
    /\ \E d \in MirrorDeltas : Advance(d)
    /\ ManagerIdle
    /\ UNCHANGED app_vars
    /\ UNCHANGED << service_vars, http_vars, pure_vars, race_vars, task_vars >>

\* The main loop with its four branches, the monitor and the clock.
NextMirror ==
    \/ MirrorMonitorSends
    \/ MediaBranch
    \/ PlaybackBranch
    \/ RetrievalReturns
    \/ LyricsBranch
    \/ TimerBranch
    \/ MirrorAdvance

SpecMirror == Init /\ [][NextMirror]_vars

\* The branches of the main loop that call the orchestrator, with the
\* monitor and the clock.
NextSettle ==
    \/ MirrorMonitorSends
    \/ MediaBranch
    \/ PlaybackBranch
    \/ RetrievalReturns
    \/ MirrorAdvance

\* The select! takes a channel that stays ready, and retrieval, bounded by
\* the service's timeout, returns.
SpecSettle ==
    /\ Init
    /\ [][NextSettle]_vars
    /\ WF_vars(MediaBranch)
    /\ WF_vars(PlaybackBranch)
    /\ WF_vars(RetrievalReturns)

\* ============================================ LyricsManager, called directly
\* The orchestrator's two handlers under any caller: every playback event and
\* every media event, one call at a time.
ManagerPositions == {0, 99, 100, 5000, 7000, 10000}
ManagerPlaybackEvents ==
    { SongChanged(t, "a1", None) : t \in {"s1", "s2"} }
    \cup { PositionUpdate(p) : p \in ManagerPositions }
    \cup { PlayStateChanged(b, p) : b \in BOOLEAN, p \in {0, 7000} }
    \cup { ResetEvent }
MediaError == [type |-> "Error", media |-> DefaultMedia]
ManagerMediaEvents ==
    { InfoUpdated(MediaInfo(t, "a1", None, pos, "Playing")) :
        t \in {"s1", "s2", ""}, pos \in {None, Some(0), Some(7000)} }
    \cup { InfoUpdated(MediaInfo("s1", "", None, Some(7000), "Playing")) }
    \cup { MediaStopped, MediaError }

ManagerPlayback ==
    /\ loop_pc.at = "select"
    /\ \E event \in ManagerPlaybackEvents :
         LET r == HandlePlaybackEvent(Ms0, event)
         IN  /\ CommitManager(r.ms, ManagerCall("playback", event, MediaStopped))
             /\ loop_pc' = r.next
    /\ UNCHANGED << timer_vars, media_event, media_changed, last_playing_state,
                    update_task >>
    /\ UNCHANGED << service_vars, http_vars, pure_vars, race_vars,
                    task_vars >>

ManagerMedia ==
    /\ loop_pc.at = "select"
    /\ \E event \in ManagerMediaEvents :
         LET r == HandleMediaEvent(Ms0, event)
         IN  /\ CommitManager(r.ms, ManagerCall("media", ResetEvent, event))
             /\ loop_pc' = r.next
    /\ UNCHANGED << timer_vars, media_event, media_changed, last_playing_state,
                    update_task >>
    /\ UNCHANGED << service_vars, http_vars, pure_vars, race_vars,
                    task_vars >>

ManagerRetrievalReturns ==
    /\ ResumeStep
    /\ UNCHANGED << timer_vars, media_event, media_changed, last_playing_state,
                    update_task >>
    /\ UNCHANGED << service_vars, http_vars, pure_vars, race_vars,
                    task_vars >>

NextManager ==
    \/ ManagerPlayback
    \/ ManagerMedia
    \/ ManagerRetrievalReturns

SpecManager == Init /\ [][NextManager]_vars

\* search_and_get_lyrics returns: the cache answers at once and each provider
\* is asked under tokio::time::timeout.
SpecManagerLive == SpecManager /\ WF_vars(ManagerRetrievalReturns)

\* ------------------------------------- LyricsManager under several callers
\* The orchestrator is shared (&self): a caller may run a handler or
\* refresh_lyrics while the calls of other callers await retrieval. A call
\* runs from one await of retrieval to the next without another call between.
MaxSuspended == 2
CallerPlaybackEvents ==
    { SongChanged(t, "a1", None) : t \in {"s1", "s2"} } \cup { PositionUpdate(5000) }
CallerMediaEvents ==
    { InfoUpdated(MediaInfo(t, "a1", None, None, "Playing")) : t \in {"s1", "s2"} }
    \cup { MediaStopped }

\* The call that left r is suspended if it awaits retrieval.
Suspend(r) ==
    /\ r.next.at = "retrieval" => Cardinality(suspended \cup {r.next}) <= MaxSuspended
    /\ suspended' = IF r.next.at = "retrieval"
                    THEN suspended \cup {r.next}
                    ELSE suspended
    /\ UNCHANGED << ticker, app_state >>

CallerPlayback ==
    /\ \E event \in CallerPlaybackEvents :
         LET r == HandlePlaybackEvent(Ms0, event)
         IN  /\ CommitManager(r.ms, ManagerCall("playback", event, MediaStopped))
             /\ Suspend(r)
    /\ UNCHANGED << timer_vars, app_vars, service_vars, http_vars, pure_vars,
                    race_vars >>

CallerMedia ==
    /\ \E event \in CallerMediaEvents :
         LET r == HandleMediaEvent(Ms0, event)
         IN  /\ CommitManager(r.ms, ManagerCall("media", ResetEvent, event))
             /\ Suspend(r)
    /\ UNCHANGED << timer_vars, app_vars, service_vars, http_vars, pure_vars,
                    race_vars >>

CallerRefresh ==
    /\ LET r == RefreshLyrics(Ms0)
       IN  /\ CommitManager(r.ms, ManagerCall("refresh", ResetEvent, MediaStopped))
           /\ Suspend(r)
    /\ UNCHANGED << timer_vars, app_vars, service_vars, http_vars, pure_vars,
                    race_vars >>

\* search_and_get_lyrics returns to one of the suspended calls.
CallerRetrievalReturns ==
    /\ \E pc \in suspended, result \in RetrievalResults :
         /\ CommitManager(ResumeHandler(Ms0, pc, result),
                          ManagerCall("retrieval", ResetEvent, MediaStopped))
         /\ suspended' = suspended \ {pc}
    /\ UNCHANGED << ticker, app_state >>
    /\ UNCHANGED << timer_vars, app_vars, service_vars, http_vars, pure_vars,
                    race_vars >>

NextCallers ==
    \/ CallerPlayback
    \/ CallerMedia
    \/ CallerRefresh
    \/ CallerRetrievalReturns

SpecCallers == Init /\ [][NextCallers]_vars

\* ------------------------------------------------------ SpecService
NextService ==
    \/ ServiceSearch
    \/ ServiceAdvance
    \/ CacheFileDamaged

\* The service built under each choice of the two enable flags.
InitService ==
    /\ TimerInit
    /\ ManagerInit
    /\ AppInit
    /\ \E netease \in BOOLEAN, qqmusic \in BOOLEAN : ServiceNew(MaxFiles, netease, qqmusic)
    /\ HttpInit
    /\ PureInit
    /\ RaceInit
    /\ TaskInit

SpecService == InitService /\ [][NextService]_vars

\* -------------------------------------------------------- SpecCache
\* The cache alone, called directly: get and put for any identity at any
\* time, under each max_files up to MaxCacheFiles. The instants of Utc::now()
\* at which it is called: the start, the end of the TTL of an entry written
\* at the start, and one hour later, which is within the cleanup interval of
\* a sweep made at the end of the TTL.
CacheInstants == {0, TtlHours, TtlHours + 1}

\* LyricsCache::get for an identity of songs
CacheGetOf(songs) ==
    /\ \E song_info \in songs :
         LET got == CacheGet(Cs(cache_files, last_cleanup), song_info, utc_now)
         IN  /\ cache_files' = got.cache.files
             /\ last_cleanup' = got.cache.last_cleanup
             /\ cache_call' = CacheCall("get", song_info, DefaultLyricsData, FALSE,
                                        got.value)
    /\ service_call' = NoServiceCall
    /\ UNCHANGED << utc_now, enable_netease, enable_qqmusic, max_files, cache_written >>
    /\ UNCHANGED << timer_vars, manager_vars, app_vars, http_vars, pure_vars, race_vars,
                    task_vars >>

\* LyricsCache::put for an identity of songs and a document of docs
CachePutOf(songs, docs) ==
    /\ \E song_info \in songs, lyrics_data \in docs, write_fails \in BOOLEAN :
         LET put == CachePut(Cs(cache_files, last_cleanup), song_info, lyrics_data,
                             utc_now, write_fails)
         IN  /\ cache_files' = put.cache.files
             /\ last_cleanup' = put.cache.last_cleanup
             /\ cache_call' = CacheCall("put", song_info, lyrics_data, put.ok, None)
             /\ cache_written' = WrittenAfterPut(cache_written, cache_files, song_info,
                                                 lyrics_data, utc_now, put.ok)
    /\ service_call' = NoServiceCall
    /\ UNCHANGED << utc_now, enable_netease, enable_qqmusic, max_files >>
    /\ UNCHANGED << timer_vars, manager_vars, app_vars, http_vars, pure_vars, race_vars,
                    task_vars >>

\* Utc::now() moves on between two calls of the cache, to an instant of
\* instants.
CacheAdvanceOver(instants) ==
    /\ \E t \in instants :
         /\ t > utc_now
         /\ utc_now' = t
    /\ service_call' = NoServiceCall
    /\ cache_call' = NoCacheCall
    /\ UNCHANGED << cache_files, last_cleanup, enable_netease, enable_qqmusic,
                    max_files, cache_written >>
    /\ UNCHANGED << timer_vars, manager_vars, app_vars, http_vars, pure_vars, race_vars,
                    task_vars >>

CacheGets == CacheGetOf(CacheSongs)
CachePuts == CachePutOf(CacheSongs, CacheDocs)
CacheAdvance == CacheAdvanceOver(CacheInstants)

NextCache ==
    \/ CacheGets
    \/ CachePuts
    \/ CacheAdvance

\* The cache built under each max_files from 1 to MaxCacheFiles.
InitCache ==
    /\ TimerInit
    /\ ManagerInit
    /\ AppInit
    /\ \E files \in 1..MaxCacheFiles : ServiceNew(files, TRUE, TRUE)
    /\ HttpInit
    /\ PureInit
    /\ RaceInit
    /\ TaskInit

SpecCache == InitCache /\ [][NextCache]_vars

\* -------------------------------------------------------- SpecSweep
\* The cache called directly while its files are damaged from outside, at
\* instants around the cleanup interval: the start, one hour before the
\* interval has passed, the interval itself, and one hour past the TTL of an
\* entry written at the start.
SweepInstants == {0, CleanupIntervalHours - 1, CleanupIntervalHours, TtlHours + 1}
SweepSongs == { SongInfo("s1", "a1"), SongInfo("s2", "a1") }

SweepGets == CacheGetOf(SweepSongs)
SweepPuts == CachePutOf(SweepSongs, { DocWithGap })
SweepAdvance == CacheAdvanceOver(SweepInstants)

NextSweep ==
    \/ SweepGets
    \/ SweepPuts
    \/ SweepAdvance
    \/ CacheFileDamaged

SpecSweep == InitCache /\ [][NextSweep]_vars

\* ------------------------------------------------------ SpecFallback
\* parse_search_response_manual of each provider applied to response texts
\* that the structured decoding rejects: every text starts with a JSONP call,
\* which is no JSON value, followed by up to MaxSegments pieces of a search
\* response.
JsonpPrefix == << "c", "b", "(" >>
FallbackSegments ==
    { KeySong,
      KeyList,
      << "[" >>,
      << "{" >> \o KeySongid \o << "7", "," >> \o KeySongmid \o << "\"", "m", "\"", "}" >>,
      << "{" >> \o KeySongid \o << "7" >>,
      << "{", "}" >>,
      KeySongsArray \o << "[", "{" >> \o QuotedId \o << ":", "7", "}" >>,
      KeySongsArray \o << "[", "{" >> \o QuotedId \o << ":", "0", "}" >>,
      KeySongsArray \o << "[", "{" >> \o QuotedId \o << ":", "\"", "7", "\"", "}" >>,
      << "x" >> }

RECURSIVE Concat(_)
Concat(segments) ==
    IF segments = << >> THEN << >> ELSE Head(segments) \o Concat(Tail(segments))

FallbackTexts ==
    { JsonpPrefix \o Concat(segments) :
        segments \in UNION { [1..n -> FallbackSegments] : n \in 0..MaxSegments } }

InitFallback ==
    /\ TimerInit
    /\ ManagerInit
    /\ AppInit
    /\ ServiceInit
    /\ HttpInit
    /\ pure_input \in { PureCall(fn, << text >>) :
                          fn \in {"QQMusicApi::parse_search_response_manual",
                                  "NetEaseApi::parse_search_response_manual"},
                          text \in FallbackTexts }
    /\ pure_output = None
    /\ RaceInit
    /\ TaskInit

\* QQMusicApi::parse_search_response_manual
QQManualApplied ==
    /\ pure_input.fn = "QQMusicApi::parse_search_response_manual"
    /\ pure_output = None
    /\ pure_output' = Some(QQParseSearchResponseManual(pure_input.args[1]))
    /\ UNCHANGED pure_input
    /\ UNCHANGED << timer_vars, manager_vars, app_vars, service_vars, http_vars,
                    race_vars, task_vars >>

\* NetEaseApi::parse_search_response_manual
NetEaseManualApplied ==
    /\ pure_input.fn = "NetEaseApi::parse_search_response_manual"
    /\ pure_output = None
    /\ pure_output' = Some(NetEaseParseSearchResponseManual(pure_input.args[1]))
    /\ UNCHANGED pure_input
    /\ UNCHANGED << timer_vars, manager_vars, app_vars, service_vars, http_vars,
                    race_vars, task_vars >>

NextFallback ==
    \/ QQManualApplied
    \/ NetEaseManualApplied

SpecFallback == InitFallback /\ [][NextFallback]_vars

\* ---------------------------------------------------------- SpecKey
\* SongInfo::cache_key applied to two identities, to compare their keys.
KeyTitles == {"s1", " S1 ", "S1", "s2", "s1|a1"}
KeyArtists == {"a1", "A1 ", "a1|x", "x"}
KeySongs == { SongInfo(title, artist) : title \in KeyTitles, artist \in KeyArtists }

InitKey ==
    /\ TimerInit
    /\ ManagerInit
    /\ AppInit
    /\ ServiceInit
    /\ HttpInit
    /\ pure_input \in { PureCall("cache_key", << a, b >>) : a \in KeySongs, b \in KeySongs }
    /\ pure_output = None
    /\ RaceInit
    /\ TaskInit

\* SongInfo::cache_key of each of the two identities
CacheKeyApplied ==
    /\ pure_input.fn = "cache_key"
    /\ pure_output = None
    /\ pure_output' = Some(<< CacheKey(pure_input.args[1]), CacheKey(pure_input.args[2]) >>)
    /\ UNCHANGED pure_input
    /\ UNCHANGED << timer_vars, manager_vars, app_vars, service_vars, http_vars,
                    race_vars, task_vars >>

NextKey == CacheKeyApplied

SpecKey == InitKey /\ [][NextKey]_vars

\* -------------------------------------------------------- SpecParse
\* parse_lyrics_to_timestamps applied to every text of up to MaxLines lines.
\* Lines that do not give an entry: a tag whose seconds are no number, and a
\* tag with three parts such as [00:00:05.00].
BadSecondsLine(content) ==
    [tagged |-> TRUE, time_part |-> << << Some(0) >>, << None, Some(0) >> >>,
     content |-> content]
ThreePartLine(content) ==
    [tagged |-> TRUE,
     time_part |-> << << Some(0) >>, << Some(0) >>, << Some(5), Some(0) >> >>,
     content |-> content]
ParseLines ==
    { LrcLine(0, 5, 0, "B"), LrcLine(0, 5, 0, "E"), LrcLine(0, 0, 0, "A"),
      LrcLine(1, 1, 1, "D"), LrcLine(0, 0, 10, ""),
      MetaLine, ShortTagLine(0, 6, "Y"), PlainLine("P"),
      BadSecondsLine("Q"), ThreePartLine("R") }
ParseTexts == UNION { [1..n -> ParseLines] : n \in 0..MaxLines }

InitParse ==
    /\ TimerInit
    /\ ManagerInit
    /\ AppInit
    /\ ServiceInit
    /\ HttpInit
    /\ pure_input \in { PureCall("parse_lyrics_to_timestamps", << text >>) :
                          text \in ParseTexts }
    /\ pure_output = None
    /\ RaceInit
    /\ TaskInit

\* LyricsManager::parse_lyrics_to_timestamps
ParseApplied ==
    /\ pure_input.fn = "parse_lyrics_to_timestamps"
    /\ pure_output = None
    /\ pure_output' = Some(ParseLyricsToTimestamps(pure_input.args[1]))
    /\ UNCHANGED pure_input
    /\ UNCHANGED << timer_vars, manager_vars, app_vars, service_vars, http_vars,
                    race_vars, task_vars >>

NextParse == ParseApplied

SpecParse == InitParse /\ [][NextParse]_vars

\* -------------------------------------------------------- SpecLine
\* The two line lookups applied to the same text and position: the
\* orchestrator's find_current_lyrics_line over its parsed list, and
\* parse_lrc_for_time, which the application's sleep branch calls through
\* get_current_lyrics_line.
LinePositions == {0, 10, 5000, 5500, 6000, 61010}

InitLine ==
    /\ TimerInit
    /\ ManagerInit
    /\ AppInit
    /\ ServiceInit
    /\ HttpInit
    /\ pure_input \in { PureCall("current_line", << text, current_ms >>) :
                          text \in ParseTexts, current_ms \in LinePositions }
    /\ pure_output = None
    /\ RaceInit
    /\ TaskInit

LineLookupsApplied ==
    /\ pure_input.fn = "current_line"
    /\ pure_output = None
    /\ LET lyrics == pure_input.args[1]
           current_ms == pure_input.args[2]
       IN  pure_output' =
             Some([find_current_lyrics_line |->
                     FindCurrentLyricsLine(ParseLyricsToTimestamps(lyrics), current_ms),
                   parse_lrc_for_time |-> ParseLrcForTime(lyrics, current_ms)])
    /\ UNCHANGED pure_input
    /\ UNCHANGED << timer_vars, manager_vars, app_vars, service_vars, http_vars,
                    race_vars, task_vars >>

NextLine == LineLookupsApplied

SpecLine == InitLine /\ [][NextLine]_vars

\* -------------------------------------------------------- SpecDelay
\* calculate_retry_delay applied to every attempt index of a client with up to
\* MaxRetries retries, with every value fastrand::u64 can draw.
InitDelay ==
    /\ TimerInit
    /\ ManagerInit
    /\ AppInit
    /\ ServiceInit
    /\ HttpInit
    /\ pure_input \in { PureCall("calculate_retry_delay", << attempt, jitter >>) :
                          attempt \in 0..MaxRetries,
                          jitter \in 0..(2 * ((BaseDelayMs * 2^MaxRetries) \div 4)) }
    /\ pure_input.args[2] \in Jitters(pure_input.args[1])
    /\ pure_output = None
    /\ RaceInit
    /\ TaskInit

\* HttpClient::calculate_retry_delay
DelayApplied ==
    /\ pure_input.fn = "calculate_retry_delay"
    /\ pure_output = None
    /\ pure_output' = Some(CalculateRetryDelay(pure_input.args[1], pure_input.args[2]))
    /\ UNCHANGED pure_input
    /\ UNCHANGED << timer_vars, manager_vars, app_vars, service_vars, http_vars,
                    race_vars, task_vars >>

NextDelay == DelayApplied

SpecDelay == InitDelay /\ [][NextDelay]_vars

\* --------------------------------------------------------- SpecHttp
\* HttpClient::get called again and again, under each max_retries up to
\* MaxRetries, with any answer to each request.
NextHttp ==
    \/ HttpGet
    \/ HttpAttempt
    \/ HttpSleepEnds
    \/ HttpDropped

InitHttp ==
    /\ TimerInit
    /\ ManagerInit
    /\ AppInit
    /\ ServiceInit
    /\ PureInit
    /\ RaceInit
    /\ TaskInit
    /\ \E retries \in 0..MaxRetries : HttpNew(retries)

SpecHttp == InitHttp /\ [][NextHttp]_vars

\* Each request is answered or fails within the client's timeout, and each
\* sleep ends.
SpecHttpLive == SpecHttp /\ WF_vars(HttpAttempt) /\ WF_vars(HttpSleepEnds)

\* ------------------------------------------------------ SpecTimer
TimerAdvance ==
    /\ \E d \in TimerDeltas : Advance(d)
    /\ UNCHANGED << manager_vars, app_vars, service_vars, http_vars, pure_vars, race_vars,
                    task_vars >>

TimerTick ==
    /\ update_internal_position
    /\ UNCHANGED << manager_vars, app_vars, service_vars, http_vars, pure_vars, race_vars,
                    task_vars >>

TimerSync ==
    /\ \E media \in TimerMedia : sync_with_media(media)
    /\ UNCHANGED << manager_vars, app_vars, service_vars, http_vars, pure_vars, race_vars,
                    task_vars >>

TimerReset ==
    /\ reset
    /\ UNCHANGED << manager_vars, app_vars, service_vars, http_vars, pure_vars, race_vars,
                    task_vars >>

NextTimer ==
    \/ TimerAdvance
    \/ TimerTick
    \/ TimerSync
    \/ TimerReset

SpecTimer == Init /\ [][NextTimer]_vars

\* ---------------------------------------------------- interleaved accesses
RaceClock ==
    /\ \E d \in RaceDeltas : RaceAdvance(d)
    /\ UNCHANGED << manager_vars, app_vars, service_vars, http_vars, pure_vars,
                    task_vars >>

RaceTickBegins ==
    /\ WriterBegins("update_internal_position", DefaultMedia)
    /\ UNCHANGED << manager_vars, app_vars, service_vars, http_vars, pure_vars,
                    task_vars >>

RaceSyncBegins ==
    /\ \E media \in RaceMedia : WriterBegins("sync_with_media", media)
    /\ UNCHANGED << manager_vars, app_vars, service_vars, http_vars, pure_vars,
                    task_vars >>

RaceResetBegins ==
    /\ WriterBegins("reset", DefaultMedia)
    /\ UNCHANGED << manager_vars, app_vars, service_vars, http_vars, pure_vars,
                    task_vars >>

RaceWriterStep ==
    /\ WriterStep
    /\ UNCHANGED << manager_vars, app_vars, service_vars, http_vars, pure_vars,
                    task_vars >>

RaceReaderBegins ==
    /\ ReaderBegins
    /\ UNCHANGED << manager_vars, app_vars, service_vars, http_vars, pure_vars,
                    task_vars >>

RaceReaderStep ==
    /\ ReaderStep
    /\ UNCHANGED << manager_vars, app_vars, service_vars, http_vars, pure_vars,
                    task_vars >>

NextRace ==
    \/ RaceClock
    \/ RaceTickBegins
    \/ RaceSyncBegins
    \/ RaceResetBegins
    \/ RaceWriterStep
    \/ RaceReaderBegins
    \/ RaceReaderStep

SpecRace == Init /\ [][NextRace]_vars

\* ------------------------------------------------ the tick next to the sync
TickSyncBegins ==
    /\ \E media \in RaceMedia : SyncBeginsNextToTick(media)
    /\ UNCHANGED << manager_vars, app_vars, service_vars, http_vars, pure_vars >>

TickSyncStep ==
    /\ SyncStepNextToTick
    /\ UNCHANGED << manager_vars, app_vars, service_vars, http_vars, pure_vars >>

TickBegins ==
    /\ TickerBegins
    /\ UNCHANGED << manager_vars, app_vars, service_vars, http_vars, pure_vars >>

TickStepTaken ==
    /\ TickerStep
    /\ UNCHANGED << manager_vars, app_vars, service_vars, http_vars, pure_vars >>

NextTick ==
    \/ RaceClock
    \/ TickSyncBegins
    \/ TickSyncStep
    \/ TickBegins
    \/ TickStepTaken

SpecTick == Init /\ [][NextTick]_vars

\* ========================================================== claims, SpecTimer
\* Time elapsed since the tracker's last stored timestamp.
ElapsedSinceUpdate == now - last_update_timestamp

\* C1 (as stated): while is_playing is true, get_current_position() is
\* min(base_position_ms + (now - last_update_timestamp), duration_ms), so it
\* never exceeds the stored duration, whatever the snapshots supplied.
C1_PositionIsMinOfExtrapolationAndDuration ==
    is_playing =>
        /\ get_current_position = Min(base_position_ms + ElapsedSinceUpdate, duration_ms)
        /\ get_current_position <= duration_ms

\* C1 (amended): while is_playing is true, get_current_position() is
\* min(base + elapsed, duration_ms) when duration_ms > 0, and the unclipped
\* base + elapsed when duration_ms = 0 (duration unknown).
C1_PositionClippedToKnownDuration ==
    is_playing =>
        /\ duration_ms > 0 =>
             /\ get_current_position = Min(base_position_ms + ElapsedSinceUpdate, duration_ms)
             /\ get_current_position <= duration_ms
        /\ duration_ms = 0 =>
             get_current_position = base_position_ms + ElapsedSinceUpdate

\* C1 witness: playing, with the extrapolation past a known duration.
C1_Witness ==
    /\ is_playing
    /\ duration_ms > 0
    /\ base_position_ms + ElapsedSinceUpdate > duration_ms
    /\ get_current_position = duration_ms

\* C2: while is_playing is false, get_current_position() is exactly
\* base_position_ms whatever time has passed, and an update_internal_position
\* tick issued while paused changes no field and sends no event.
C2_PausedPositionIsBase ==
    /\ [](~is_playing => get_current_position = base_position_ms)
    /\ [][ (timer_call'.op = "update_internal_position" /\ ~is_playing) =>
             /\ UNCHANGED << is_playing, base_position_ms, duration_ms,
                             last_update_timestamp, current_song,
                             playback_event, playback_changed >>
             /\ timer_emitted' = << >> ]_vars

\* C2 witness: a tick issued while paused, long after the last stored
\* timestamp, with a non-zero base.
C2_Witness ==
    /\ ~is_playing
    /\ timer_call.op = "update_internal_position"
    /\ ElapsedSinceUpdate >= 100
    /\ base_position_ms > 0
    /\ get_current_position = base_position_ms

\* The sync_with_media call just made was for the stored song with the stored
\* playing flag, and its snapshot reports a position.
SameSongSameFlagSync ==
    /\ timer_call'.op = "sync_with_media"
    /\ IsSome(current_song)
    /\ NewSong(timer_call'.media) = current_song
    /\ NewPlaying(timer_call'.media) = is_playing
    /\ IsSome(timer_call'.media.position)

\* C3: sync_with_media for the stored song with the stored playing flag leaves
\* base_position_ms unchanged and sends nothing when |reported - extrapolated|
\* <= 1000 ms; at 1001 ms or more it stores the reported position as the base,
\* resets last_update_timestamp to now and sends PositionUpdate{reported}.
C3_DriftCorrectionThreshold ==
    [][ SameSongSameFlagSync =>
          LET reported == timer_call'.media.position[1]
              diff == Abs(reported - get_current_position)
          IN  /\ diff <= 1000 =>
                   /\ base_position_ms' = base_position_ms
                   /\ last_update_timestamp' = last_update_timestamp
                   /\ timer_emitted' = << >>
              /\ diff >= 1001 =>
                   /\ base_position_ms' = reported
                   /\ last_update_timestamp' = now
                   /\ timer_emitted' = << PositionUpdate(reported) >> ]_vars

\* C3 witness: a sync for the stored song that sent PositionUpdate alone, with
\* the reported position now the base.
C3_Witness ==
    /\ timer_call.op = "sync_with_media"
    /\ IsSome(current_song)
    /\ NewSong(timer_call.media) = current_song
    /\ IsSome(timer_call.media.position)
    /\ timer_emitted = << PositionUpdate(timer_call.media.position[1]) >>
    /\ base_position_ms = timer_call.media.position[1]
    /\ last_update_timestamp = now
    /\ now > 0

\* ------------------------------------------------------------------ C4..C7
KnownSongs == { SongInfo(t, "a1") : t \in {"s1", "s2"} }

\* The step is a call of handle_playback_event or handle_media_event whose
\* event carries the identity song_info.
HandlesIdentity(song_info) ==
    \/ /\ manager_call'.handler = "playback"
       /\ manager_call'.playback.type = "SongChanged"
       /\ SongInfo(manager_call'.playback.title, manager_call'.playback.artist) = song_info
    \/ /\ manager_call'.handler = "media"
       /\ manager_call'.media.type = "InfoUpdated"
       /\ manager_call'.media.media.title # ""
       /\ manager_call'.media.media.artist # ""
       /\ SongInfo(manager_call'.media.media.title, manager_call'.media.media.artist)
            = song_info

EmitsLoadingStarted ==
    \E i \in 1..Len(lyrics_emitted') : lyrics_emitted'[i].type = "LoadingStarted"

EmitsCurrentLineUpdated ==
    \E i \in 1..Len(lyrics_emitted') : lyrics_emitted'[i].type = "CurrentLineUpdated"

LoadingStateFor(st, song_info) ==
    /\ st.current_song = Some(song_info)
    /\ st.is_loading
    /\ st.current_lyrics = None
    /\ st.current_line = None

\* C4: a handler call whose event carries an identity different from the
\* stored one leaves LyricsState at (that identity, loading, no lyrics, no
\* line) and has emitted exactly LoadingStarted for it when it reaches the call
\* of retrieval; the state stays so while retrieval is pending; and no
\* LoadingCompleted or LoadingFailed of a song is emitted without a
\* LoadingStarted of that song before it.
C4_LoadingStartedBeforeRetrieval ==
    /\ [][\A s \in KnownSongs :
            (HandlesIdentity(s) /\ state.current_song # Some(s))
            => /\ loop_pc'.at = "retrieval"
               /\ loop_pc'.song_info = s
               /\ LoadingStateFor(state', s)
               /\ lyrics_emitted' = << LoadingStarted(s) >>]_vars
    /\ [](loop_pc.at = "retrieval"
          => /\ LoadingStateFor(state, loop_pc.song_info)
             /\ loop_pc.song_info \in open_loads)
    /\ [](~unannounced)

\* A SongChanged event for a new identity has been handled up to the call of
\* retrieval while another song's lines were loaded.
C4_Witness ==
    /\ loop_pc.at = "retrieval"
    /\ loop_pc.handler = "playback"
    /\ manager_call.handler = "playback"
    /\ lyrics_emitted = << LoadingStarted(loop_pc.song_info) >>
    /\ parsed_lyrics_cache # EmptyMap

CurrentParsedLines ==
    IF IsSome(state.current_song) /\ state.current_song[1] \in DOMAIN parsed_lyrics_cache
    THEN parsed_lyrics_cache[state.current_song[1]]
    ELSE << >>

\* A line-cursor update at position p ran to its end for a Ready song.
CursorUpdatedAt(p) ==
    /\ cursor_update = Some(p)
    /\ IsSome(state.current_song)
    /\ IsSome(state.current_lyrics)
    /\ ~state.is_loading

\* C6 as stated: after a line-cursor update at p for a Ready song,
\* current_line is the text of a parsed line of greatest timestamp <= p (an
\* empty text counting as that text or as no line), and none when p precedes
\* every timestamp.
C6_LineOfGreatestTimestamp ==
    IsSome(cursor_update) /\ CursorUpdatedAt(cursor_update[1])
    => LET p == cursor_update[1]
           L == CurrentParsedLines
           reached == { i \in 1..Len(L) : L[i].timestamp <= p }
       IN  IF reached = {}
           THEN state.current_line = None
           ELSE \E i \in reached :
                  /\ \A j \in reached : L[j].timestamp <= L[i].timestamp
                  /\ \/ state.current_line = Some(L[i].text)
                     \/ (L[i].text = "" /\ state.current_line = None)

\* C6 amended: after a line-cursor update at p for a Ready song, current_line
\* is the text of the last line of the parsed list that has a timestamp <= p
\* and a non-empty text, and none when the list has no such line.
C6_LastNonEmptyLineReached ==
    IsSome(cursor_update) /\ CursorUpdatedAt(cursor_update[1])
    => LET p == cursor_update[1]
           L == CurrentParsedLines
           shown == { i \in 1..Len(L) : L[i].timestamp <= p /\ L[i].text # "" }
       IN  /\ state.current_position = p
           /\ IF shown = {}
              THEN state.current_line = None
              ELSE \E i \in shown :
                     /\ \A j \in shown : j <= i
                     /\ state.current_line = Some(L[i].text)

\* A cursor update at 7000 ms over lines at 100 ms ("X") and 5000 ms (empty).
C6_Witness ==
    /\ CursorUpdatedAt(7000)
    /\ state.current_lyrics = Some(DocWithGap)
    /\ CurrentParsedLines = << TimedLine(100, "X"), TimedLine(5000, "") >>
    /\ state.current_line = Some("X")

\* The step handles a PositionUpdate event, a PlayStateChanged event or a
\* media snapshot of the stored song.
HandlesSameSongProgress ==
    /\ IsSome(state.current_song)
    /\ \/ /\ manager_call'.handler = "playback"
          /\ manager_call'.playback.type \in {"PositionUpdate", "PlayStateChanged"}
       \/ HandlesIdentity(state.current_song[1])

\* C7 as stated: while the tracker is not playing, handling PositionUpdate,
\* PlayStateChanged or a media snapshot of the same song neither changes
\* current_line nor emits CurrentLineUpdated.
C7_PausedCursorFrozen ==
    [][(~is_playing /\ ~is_playing' /\ HandlesSameSongProgress)
       => (state'.current_line = state.current_line /\ ~EmitsCurrentLineUpdated)]_vars

\* ----------------------------------------------------------------- C8..C10
\* The step is a call of search_and_get_lyrics with a valid identity.
ServiceCalled ==
    service_call' # NoServiceCall /\ IsValid(service_call'.song_info)

\* Before the step the cache directory holds, under the key of song_info, an
\* entry whose expiry time has not passed.
HoldsUnexpiredEntry(song_info) ==
    \E i \in 1..Len(cache_files) :
        /\ cache_files[i].key = CacheKey(song_info)
        /\ cache_files[i].content = "entry"
        /\ utc_now <= cache_files[i].expires_at

\* The enabled providers, in the order NetEase, QQMusic.
EnabledInOrder ==
    (IF enable_netease THEN << "NetEase" >> ELSE << >>)
    \o (IF enable_qqmusic THEN << "QQMusic" >> ELSE << >>)

\* How a provider's response counts: content, a timeout, an error, or a soft
\* miss (no matching song, no lyrics).
GaveContent(response) ==
    ~response.deadline /\ response.search = "Found" /\ response.lyrics = "Content"
TimedOut(response) == response.deadline
Errored(response) == ~response.deadline /\ response.search = "NetworkError"

\* C8: on a cache miss the providers queried are the enabled ones in the order
\* NetEase, QQMusic, up to and including the first that gives content; that
\* provider's document is the result and is handed to cache.put (after a put
\* that succeeded it is the newest file of the cache, unless eviction emptied
\* the directory); without content from any provider every enabled provider
\* has been queried once, the call fails and nothing is put.
C8_ProvidersInOrderFirstContentWins ==
    [][(ServiceCalled /\ ~HoldsUnexpiredEntry(service_call'.song_info))
       => LET c == service_call'
              n == Len(c.queried)
          IN  /\ n <= Len(EnabledInOrder)
              /\ \A i \in 1..n : c.queried[i].provider = EnabledInOrder[i]
              /\ \A i \in 1..n :
                   GaveContent(c.queried[i].response)
                   => /\ i = n
                      /\ c.result = Ok(ProviderDoc(c.queried[i].provider, "Content"))
                      /\ c.result.lyrics.source = c.queried[i].provider
                      /\ c.put = Some(CacheFile(CacheKey(c.song_info), "entry",
                                                c.result.lyrics, utc_now + TtlHours))
                      /\ (c.put_ok /\ cache_files' # << >>)
                         => Last(cache_files') = c.put[1]
              /\ (\A i \in 1..n : ~GaveContent(c.queried[i].response))
                 => /\ n = Len(EnabledInOrder)
                    /\ ~c.result.ok
                    /\ c.put = None]_vars

\* NetEase was queried and gave no content, QQMusic was queried next and its
\* document was returned and written.
C8_Witness ==
    /\ Len(service_call.queried) = 2
    /\ service_call.queried[1].provider = "NetEase"
    /\ service_call.queried[2].provider = "QQMusic"
    /\ service_call.result = Ok(DocWithGap)
    /\ service_call.put_ok
    /\ cache_files # << >>
    /\ Last(cache_files).lyrics_data = DocWithGap

\* The error of the last queried provider that errored or timed out, if any.
LastHardError(queried) ==
    LET hard == { i \in 1..Len(queried) :
                    TimedOut(queried[i].response) \/ Errored(queried[i].response) }
    IN  IF hard = {}
        THEN None
        ELSE LET i == CHOOSE k \in hard : \A j \in hard : j <= k
             IN  Some(IF TimedOut(queried[i].response) THEN "Timeout"
                      ELSE queried[i].response.search)

\* C9 as stated: when a call misses the cache and no queried provider gives
\* content, it fails with the error of the last provider that errored or timed
\* out, and with LyricsNotFound when none did; a provider that found no song
\* or no lyrics records nothing.
C9_SoftMissRecordsNoError ==
    (/\ service_call # NoServiceCall
     /\ IsValid(service_call.song_info)
     /\ service_call.cache_hit = None
     /\ \A i \in 1..Len(service_call.queried) :
          ~GaveContent(service_call.queried[i].response))
    => service_call.result
         = Err(IF IsSome(LastHardError(service_call.queried))
               THEN LastHardError(service_call.queried)[1]
               ELSE "LyricsNotFound")

\* C10: a call for an identity whose key holds an unexpired entry returns that
\* entry's document, queries no provider, puts nothing, and leaves in the
\* cache directory that entry and no file that was not there before.
C10_HitReturnsCachedDocument ==
    [][(ServiceCalled /\ HoldsUnexpiredEntry(service_call'.song_info))
       => LET c == service_call'
          IN  \E i \in 1..Len(cache_files) :
                /\ cache_files[i].key = CacheKey(c.song_info)
                /\ c.result = Ok(cache_files[i].lyrics_data)
                /\ c.cache_hit = Some(cache_files[i].lyrics_data)
                /\ c.queried = << >>
                /\ c.put = None
                /\ \E j \in 1..Len(cache_files') : cache_files'[j] = cache_files[i]
                /\ \A j \in 1..Len(cache_files') :
                     \E k \in 1..Len(cache_files) : cache_files'[j] = cache_files[k]]_vars

\* A later call, under another spelling of the same identity, was answered
\* from the entry an earlier call had written.
C10_Witness ==
    /\ service_call.song_info = SongInfo(" S1 ", "a1")
    /\ IsSome(service_call.cache_hit)
    /\ service_call.result = Ok(service_call.cache_hit[1])
    /\ service_call.queried = << >>
    /\ utc_now > 0
    /\ IsSome(last_cleanup) /\ last_cleanup[1] = utc_now



\* ------------------------------------------------------------ C11 .. C14
\* The step is a call of LyricsCache::get.
CacheGetCalled == cache_call'.op = "get"
\* The step is a call of LyricsCache::put that returned Ok.
CachePutOk == cache_call'.op = "put" /\ cache_call'.ok

\* C11: a get for an identity whose last put stored an entry, not later than
\* the TTL after that put and with no put since that raised the number of
\* entries above max_files, returns the document of that put; a successful
\* put for an identity that has an entry leaves the entry of this put under
\* its key and the number of entries as it was.
C11_PutThenGetReturnsDocument ==
    [][ /\ CacheGetCalled =>
             LET w == cache_written[cache_call'.key]
             IN  (IsSome(w) /\ utc_now <= w[1].at + TtlHours)
                    => cache_call'.value = Some(w[1].lyrics_data)
        /\ (CachePutOk /\ IsSome(FileOf(cache_files, cache_call'.key))) =>
             /\ Len(cache_files') = Len(cache_files)
             /\ FileOf(cache_files', cache_call'.key)
                  = Some(CacheEntry(cache_call'.song_info, cache_call'.lyrics_data,
                                    utc_now))
      ]_vars

\* A get at the very end of the TTL, for an identity spelled with blanks and capitals,
\* returns the document of the put, with the cache holding max_files entries.
C11_Witness ==
    /\ cache_call.op = "get"
    /\ cache_call.song_info = SongInfo(" S1 ", "a1")
    /\ cache_written[cache_call.key] = Some(Written(DocWithGap, 0))
    /\ utc_now = TtlHours
    /\ cache_call.value = Some(DocWithGap)
    /\ Len(cache_files) = max_files

\* C12: a get for an identity whose entry's expiry time (write time + TTL)
\* has passed returns nothing and leaves no file under the key; a get for a
\* key without a file returns nothing and leaves none; and a file appears
\* under a key only by a successful put for that key.
C12_ExpiredGetMissesAndDeletes ==
    [][ /\ CacheGetCalled =>
             LET file == FileOf(cache_files, cache_call'.key)
             IN  ((IsSome(file) => utc_now > file[1].expires_at)
                    => /\ cache_call'.value = None
                       /\ FileOf(cache_files', cache_call'.key) = None)
        /\ \A key \in CacheKeys :
             (FileOf(cache_files, key) = None /\ IsSome(FileOf(cache_files', key)))
                => (CachePutOk /\ cache_call'.key = key)
      ]_vars

\* A get finds the entry written at 0 expired at 25, one hour after the
\* sweep of 24 and so without a sweep of its own, and deletes its file.
C12_Witness ==
    /\ cache_call.op = "get"
    /\ cache_call.value = None
    /\ cache_written[cache_call.key] = Some(Written(DocThreeLines, 0))
    /\ utc_now = TtlHours + 1
    /\ last_cleanup = Some(TtlHours)
    /\ FileOf(cache_files, cache_call.key) = None

\* The directory right after the write of the put of this step, before
\* cleanup_if_needed: the files of other keys in their order, then the entry.
FilesAfterWrite ==
    WithoutKey(cache_files, cache_call'.key)
        \o << CacheEntry(cache_call'.song_info, cache_call'.lyrics_data, utc_now) >>

\* C13: when a put returns, the directory holds at most max_files files; a
\* put whose write raises the number above max_files leaves exactly the
\* floor(max_files * 3 / 4) most recently modified files, and a put whose
\* write does not exceed max_files leaves every file in place.
C13_EvictionKeepsNewestThreeQuarters ==
    [][ cache_call'.op = "put" =>
          /\ Len(cache_files') <= max_files
          /\ ~cache_call'.ok => cache_files' = cache_files
          /\ (cache_call'.ok /\ Len(FilesAfterWrite) > max_files) =>
                LET kept == (max_files * 3) \div 4
                    n == Len(FilesAfterWrite)
                IN  /\ Len(cache_files') = kept
                    /\ cache_files' = SubSeq(FilesAfterWrite, n - kept + 1, n)
          /\ (cache_call'.ok /\ Len(FilesAfterWrite) <= max_files) =>
                cache_files' = FilesAfterWrite
      ]_vars

\* A third key is put into a cache of max_files = 2 holding two entries:
\* the two older files are deleted and the one of this put remains.
C13_Witness ==
    /\ cache_call.op = "put"
    /\ cache_call.ok
    /\ max_files = 2
    /\ Len(cache_files) = 1
    /\ cache_files[1].key = cache_call.key
    /\ \A key \in CacheKeys : cache_written[key] = None

\* The title and the artist of an identity, each trimmed and lower-cased.
Normalised(song_info) ==
    << ToLowercase(Trim(song_info.title)), ToLowercase(Trim(song_info.artist)) >>

\* C14: the keys of two identities are equal exactly when the identities'
\* trimmed, lower-cased titles are equal and their trimmed, lower-cased
\* artists are equal.
C14_SameKeyIffSameNormalisedPair ==
    IsSome(pure_output) =>
        ((pure_output[1][1] = pure_output[1][2])
           <=> (Normalised(pure_input.args[1]) = Normalised(pure_input.args[2])))

\* ------------------------------------------------------------ C15 .. C16
\* The call entered the retry loop and has returned.
HttpLoopReturned == http_pc = "returned" /\ http_log # << >>

\* C15: a call never makes more than max_retries + 1 attempts and makes none
\* after an attempt that succeeded; a call that returns after a successful
\* attempt returns that attempt's body; a call that returns after failed
\* attempts only has made exactly max_retries + 1 of them and returns the
\* error of the last; and every attempt in progress leads to the return of
\* the call (or to its being dropped by the caller).
C15_RetryLoopBoundedAndReturnsLast ==
    /\ [](/\ Len(http_log) <= http_max_retries + 1
          /\ \A i \in 1..(Len(http_log) - 1) : ~http_log[i].ok
          /\ HttpLoopReturned =>
                IF Last(http_log).ok
                THEN http_result = Some(Last(http_log))
                ELSE /\ Len(http_log) = http_max_retries + 1
                     /\ http_result = Some(HttpErr(Last(http_log).error)))
    /\ (http_pc = "request") ~> (http_pc \in {"returned", "idle"})

\* The default client against a server that always answers 503: four
\* attempts, then ServiceUnavailable.
C15_Witness ==
    /\ HttpLoopReturned
    /\ http_max_retries = DefaultMaxRetries
    /\ Len(http_log) = 4
    /\ \A i \in 1..4 : http_log[i] = HttpErr("ServiceUnavailable")
    /\ http_result = Some(HttpErr("ServiceUnavailable"))

\* C16: the sleep that follows an attempt answered with 429 lasts the delay
\* retry_delay_ms gives for RateLimited, 60 s.
C16_RateLimitedSleepsSixtySeconds ==
    [][ (http_pc = "request" /\ http_pc' = "sleep"
           /\ Last(http_log').error = "RateLimited")
          => http_delay' = RetryDelayMs("RateLimited", http_attempt) ]_vars

\* ------------------------------------------------------------ C17 .. C18
\* The position-advance task exists and has not left its loop.
UpdateTaskRunning == update_task \in {"check", "tick"}

\* C17: the supervisor holds at most one position-advance task, which it
\* started at a check that observed the tracker playing; once a check has
\* observed the tracker not playing, no task remains until a later check
\* observes it playing again.
C17_NoTaskAfterStopObserved ==
    /\ update_task \in {"none", "check", "tick", "finished"}
    /\ ~last_playing_state => update_task = "none"

\* The task ran and sent a position update, the tracker was paused, and the
\* next check cancelled the task.
C17_Witness ==
    /\ ~last_playing_state
    /\ ~is_playing
    /\ update_task = "none"
    /\ playback_event.type = "PositionUpdate"

\* C18: in every state in which the tracker is playing and the supervisor's
\* last check observed it playing, the position-advance task is running. (A
\* check made in such a state observes no change and leaves the task as it
\* is, so this is the state after that check.)
C18_TaskRunningWhileObservedPlaying ==
    (is_playing /\ last_playing_state) => UpdateTaskRunning

\* ------------------------------------------------------------ C19 .. C20
\* The line has the form [mm:ss.xx]text with numbers mm, ss and xx.
HasTimedForm(line) ==
    /\ line.tagged
    /\ Len(line.time_part) = 2
    /\ Len(line.time_part[1]) = 1
    /\ Len(line.time_part[2]) = 2
    /\ IsSome(line.time_part[1][1])
    /\ IsSome(line.time_part[2][1])
    /\ IsSome(line.time_part[2][2])

\* The entry the claim gives for a line of that form.
EntryOfLine(line) ==
    TimedLine(line.time_part[1][1][1] * 60000 + line.time_part[2][1][1] * 1000
                 + line.time_part[2][2][1] * 10,
              line.content)

\* The positions of the text's lines of that form, in the order of the text.
TimedPositions(text) == { i \in 1..Len(text) : HasTimedForm(text[i]) }

\* parsed lists the entries of the text's timed lines, each once, ascending
\* by timestamp, entries of equal timestamp in the order of their lines.
IsStableSortedParse(text, parsed) ==
    \E f \in [1..Len(parsed) -> TimedPositions(text)] :
        /\ \A i \in TimedPositions(text) : \E j \in 1..Len(parsed) : f[j] = i
        /\ \A j, k \in 1..Len(parsed) : (j # k) => (f[j] # f[k])
        /\ \A j \in 1..Len(parsed) : parsed[j] = EntryOfLine(text[f[j]])
        /\ \A j, k \in 1..Len(parsed) :
             (j < k) => \/ parsed[j].timestamp < parsed[k].timestamp
                        \/ parsed[j].timestamp = parsed[k].timestamp /\ f[j] < f[k]

\* C19: the parse of a text holds exactly one entry (mm*60000 + ss*1000 +
\* xx*10, text) per line of the form [mm:ss.xx]text and none for any other
\* line, ascending by timestamp with equal timestamps in line order. (The
\* texts parsed include every reordering of each text, and the entries do
\* not depend on the order of the lines.)
C19_ParseIsStableSortOfTimedLines ==
    IsSome(pure_output) => IsStableSortedParse(pure_input.args[1], pure_output[1])

\* A text with two lines of equal timestamp in the order E, B behind a later
\* line D: the parse is E, B, D.
C19_Witness ==
    /\ pure_input.args = << << LrcLine(1, 1, 1, "D"), LrcLine(0, 5, 0, "E"),
                              LrcLine(0, 5, 0, "B") >> >>
    /\ pure_output = Some(<< TimedLine(5000, "E"), TimedLine(5000, "B"),
                             TimedLine(61010, "D") >>)

\* The step is the return of the retrieval the loop was suspended in.
RetrievalReturned == loop_pc.at = "retrieval" /\ manager_call'.handler = "retrieval"

\* The events LoadingCompleted and LoadingFailed among those of the step.
LoadEndings(events) ==
    SelectSeq(events, LAMBDA e : e.type \in {"LoadingCompleted", "LoadingFailed"})

\* C20: the return of the retrieval started for song S emits exactly one of
\* LoadingCompleted{S, document} and LoadingFailed{S, error} and leaves
\* is_loading false, with current_lyrics the document of the event in the
\* first case and absent in the second, and the loop back at its select;
\* and every pending retrieval leads to such a return.
C20_RetrievalEndsLoading ==
    /\ [][RetrievalReturned =>
            LET endings == LoadEndings(lyrics_emitted')
            IN  /\ Len(endings) = 1
                /\ endings[1].song_info = loop_pc.song_info
                /\ state'.current_song = Some(loop_pc.song_info)
                /\ ~state'.is_loading
                /\ IF endings[1].type = "LoadingCompleted"
                   THEN /\ IsSome(endings[1].lyrics)
                        /\ state'.current_lyrics = endings[1].lyrics
                   ELSE /\ endings[1].error # ""
                        /\ state'.current_lyrics = None
                /\ loop_pc' = AtSelect]_vars
    /\ (loop_pc.at = "retrieval") ~> (loop_pc = AtSelect /\ ~state.is_loading)

\* The retrieval for a song failed: LoadingFailed, not loading, no lyrics,
\* and the loop is back at its select.
C20_Witness ==
    /\ manager_call.handler = "retrieval"
    /\ Len(lyrics_emitted) = 1
    /\ lyrics_emitted[1].type = "LoadingFailed"
    /\ state.current_song = Some(lyrics_emitted[1].song_info)
    /\ ~state.is_loading
    /\ state.current_lyrics = None
    /\ loop_pc = AtSelect

\* The handler call clears: a Reset playback event, a media snapshot whose
\* title or artist is empty, a media Error or a media Stopped.
ClearingCall(call) ==
    \/ call.handler = "playback" /\ call.playback.type = "Reset"
    \/ /\ call.handler = "media"
       /\ call.media.type = "InfoUpdated"
       /\ (call.media.media.title = "" \/ call.media.media.artist = "")
    \/ call.handler = "media" /\ call.media.type \in {"Error", "Stopped"}

HoldsDamagedFile(song_info) ==
    LET file == FileOf(cache_files, CacheKey(song_info))
    IN  IsSome(file) /\ file[1].content # "entry"

\* The errors a provider call or the identity check produce.
NonCacheErrors ==
    {"InvalidSongInfo", "SongNotFound", "LyricsNotFound", "JsonParseError",
     "NetworkError", "Timeout"}

\* C22: a call of search_and_get_lyrics for a valid identity whose cache file
\* cannot be read or decoded gets no document from the cache and returns what
\* the providers give; a call whose cache.put failed returns the fetched
\* document as Ok; and no call returns a cache error.
C22_CacheFailuresNeverReachCaller ==
    [][service_call' # NoServiceCall =>
        LET call == service_call'
        IN  /\ (IsValid(call.song_info) /\ HoldsDamagedFile(call.song_info)) =>
                  /\ call.cache_hit = None
                  /\ call.result =
                        FetchLyricsFromApis(
                            [p \in Providers |-> IF p = "NetEase" THEN enable_netease
                                                 ELSE enable_qqmusic],
                            [p \in Providers |->
                               IF \E i \in 1..Len(call.queried) :
                                     call.queried[i].provider = p
                               THEN (CHOOSE q \in { call.queried[i] :
                                                      i \in 1..Len(call.queried) } :
                                        q.provider = p).response
                               ELSE ProviderResponse(FALSE, "NoSong", "Blank")]).result
                  /\ (enable_netease \/ enable_qqmusic) => call.queried # << >>
            /\ (IsSome(call.put) /\ ~call.put_ok) =>
                  /\ call.result = Ok(call.put[1].lyrics_data)
                  /\ HasAnyContent(call.result.lyrics)
            /\ ~call.result.ok => call.result.error \in NonCacheErrors]_vars

\* A call found the file of its identity undecodable, asked a provider, got
\* a document, failed to write it and returned it.
C22_Witness ==
    /\ service_call.song_info = SongInfo("s1", "a1")
    /\ HoldsDamagedFile(service_call.song_info)
    /\ service_call.cache_hit = None
    /\ Len(service_call.queried) = 2
    /\ IsSome(service_call.put)
    /\ ~service_call.put_ok
    /\ service_call.result = Ok(DocWithGap)

\* The manual parser of either provider has returned.
ManualParserReturned ==
    /\ pure_input.fn \in {"QQMusicApi::parse_search_response_manual",
                          "NetEaseApi::parse_search_response_manual"}
    /\ IsSome(pure_output)

\* C23: for every response text, the manual fallback parser of either
\* provider returns Ok: a candidate id, or none; it never returns an error.
C23_FallbackNeverFails ==
    ManualParserReturned => pure_output[1].ok

\* The step is a tick of update_internal_position or a move of the clock, and
\* the tracker is playing before and after it.
PlayingThroughTickOrTime ==
    /\ is_playing
    /\ is_playing'
    /\ timer_call'.op \in {"update_internal_position", "advance"}

\* C24: while is_playing stays true, over a tick of update_internal_position
\* and over the passing of time the result of get_current_position() does not
\* decrease, so two successive results with any ticks in between are in
\* order.
C24_PositionMonotonicWhilePlaying ==
    [][PlayingThroughTickOrTime => get_current_position' >= get_current_position]_vars

\* A tick while playing has just folded 50 ms into the base: the position is
\* the new base, above zero.
C24_Witness ==
    /\ timer_call.op = "update_internal_position"
    /\ is_playing
    /\ last_update_timestamp = now
    /\ now >= DebounceMs
    /\ base_position_ms >= DebounceMs
    /\ get_current_position = base_position_ms

\* The sweep of get is due: none has run, or the interval has passed.
SweepDue ==
    last_cleanup = None \/ utc_now - last_cleanup[1] >= CleanupIntervalHours

\* The file decodes to an entry whose expiry time has not passed.
SurvivesSweep(f) == f.content = "entry" /\ utc_now <= f.expires_at

\* C25: a get sweeps exactly when no sweep has run yet or at least the
\* cleanup interval has passed since the last one. A get that sweeps leaves
\* the files that decode and are not expired, each as it was and in their
\* order, and no other file, and sets last_cleanup to the time of the call;
\* a get that does not sweep leaves last_cleanup and every file of another
\* key as they are.
C25_GetSweepsWhenDue ==
    [][CacheGetCalled =>
        IF SweepDue
        THEN /\ last_cleanup' = Some(utc_now)
             /\ cache_files' = SelectSeq(cache_files, SurvivesSweep)
             /\ \A i \in 1..Len(cache_files') : SurvivesSweep(cache_files'[i])
        ELSE /\ last_cleanup' = last_cleanup
             /\ SelectSeq(cache_files', LAMBDA f : f.key # cache_call'.key) =
                   SelectSeq(cache_files, LAMBDA f : f.key # cache_call'.key)]_vars

\* A get five hours after the sweep of the start did not sweep: last_cleanup
\* is still the start and an undecodable file of the other key is still
\* there, next to nothing else.
C25_Witness ==
    /\ cache_call.op = "get"
    /\ utc_now = CleanupIntervalHours - 1
    /\ last_cleanup = Some(0)
    /\ \E i \in 1..Len(cache_files) :
         /\ cache_files[i].content = "garbage"
         /\ cache_files[i].key # cache_call.key

\* calculate_retry_delay has returned.
DelayComputed == pure_input.fn = "calculate_retry_delay" /\ IsSome(pure_output)

\* The values the computation passes through, in u64 arithmetic: the power,
\* the exponential delay, the jitter range and its double, the difference
\* and the sum.
DelayIntermediates(attempt, jitter) ==
    LET exponential_delay == BaseDelayMs * 2^attempt
        jitter_range == exponential_delay \div 4
    IN  { 2^attempt, exponential_delay, jitter_range, jitter_range * 2,
          exponential_delay - jitter_range,
          (exponential_delay - jitter_range) + jitter }

\* n is a natural number of at most 31 bits, and so a u64.
FitsU64(n) == n >= 0 /\ n <= 2147483647

SameSongFlagChangedSync ==
    /\ timer_call'.op = "sync_with_media"
    /\ IsSome(current_song)
    /\ NewSong(timer_call'.media) = current_song
    /\ NewPlaying(timer_call'.media) # is_playing
    /\ timer_call'.media.position = None

\* C27: sync_with_media for the stored song with a different playing flag
\* stores the new flag, sets last_update_timestamp to now and sends
\* PlayStateChanged with the position extrapolated up to the call, and
\* get_current_position() is the same right after the call as right before.
C27_FlagChangeKeepsPosition ==
    [][SameSongFlagChangedSync =>
          /\ is_playing' = NewPlaying(timer_call'.media)
          /\ last_update_timestamp' = now
          /\ timer_emitted' = << PlayStateChanged(NewPlaying(timer_call'.media),
                                                  get_current_position) >>
          /\ get_current_position' = get_current_position]_vars

\* The sync_with_media call of the step is for the stored song with the other
\* playing flag.
FlagChangeDetected ==
    /\ timer_call'.op = "sync_with_media"
    /\ IsSome(current_song)
    /\ NewSong(timer_call'.media) = current_song
    /\ NewPlaying(timer_call'.media) # is_playing

\* C28: a call of sync_with_media sends at most one playback event, and a
\* call that detects a change of the playing flag leaves base_position_ms as
\* it is.
C28_SyncTakesOneBranch ==
    [][timer_call'.op = "sync_with_media" =>
          /\ Len(timer_emitted') <= 1
          /\ FlagChangeDetected => base_position_ms' = base_position_ms]_vars

\* The step is a call of update_internal_position.
TickCalled == timer_call'.op = "update_internal_position"

ReadMetOneWrite ==
    /\ reader.pc = "done"
    /\ reader.overlap = 1
    /\ IsSome(reader.before)
    /\ IsSome(reader.after)

\* C30: get_current_position running concurrently with one writing call
\* (update_internal_position, sync_with_media or reset), every atomic load and
\* store a separate step, returns a value within one update interval of the
\* position valid just before the write or of the position valid just after it.
C30_TornReadWithinUpdateInterval ==
    ReadMetOneWrite =>
        LET position == reader.result[1]
        IN  \/ Abs(position - PositionOf(reader.before[1], reader.t)) <= UpdateIntervalMs
            \/ Abs(position - PositionOf(reader.after[1], reader.t)) <= UpdateIntervalMs


\* ======================================================== claims, SpecCallers
\* The last step was the return of retrieval to a suspended call.
CompletionApplied == manager_call.handler = "retrieval"
\* The song and the document of the completion the last step applied.
CompletedSong == lyrics_emitted[1].song_info

\* C31: the return of retrieval for a song is applied to LyricsState without
\* a look at current_song: whatever the current song is, the completion ends
\* the loading state and a success stores its document as current_lyrics, so
\* with another song's call running meanwhile a state with that song current,
\* the first song's lyrics and is_loading false is reached.
C31_CompletionAppliedWithoutIdentityCheck ==
    [][CompletionApplied' =>
         LET completion == lyrics_emitted'[1]
         IN  /\ state'.is_loading = FALSE
             /\ state'.current_song = state.current_song
             /\ completion.type = "LoadingCompleted"
                  => state'.current_lyrics = completion.lyrics
             /\ completion.type = "LoadingFailed"
                  => state'.current_lyrics = state.current_lyrics]_vars

\* Song s1's retrieval has just succeeded while s2 is current and s2's own
\* retrieval is still awaited.
C31_Witness ==
    /\ CompletionApplied
    /\ lyrics_emitted[1].type = "LoadingCompleted"
    /\ CompletedSong = SongInfo("s1", "a1")
    /\ state.current_song = Some(SongInfo("s2", "a1"))
    /\ state.current_lyrics = lyrics_emitted[1].lyrics
    /\ ~state.is_loading
    /\ \E pc \in suspended : pc.song_info = SongInfo("s2", "a1")


\* ========================================================= claims, SpecMirror
\* The loop is at its select! and every lyrics event sent has been polled.
LyricsEventsDrained == loop_pc.at = "select" /\ ~lyrics_changed

\* C32: the lyrics channel keeps the latest event only; once the loop has
\* polled it and no further lyrics event is sent, the application's mirrored
\* is_loading and current_lyrics equal the orchestrator's, and so does the
\* mirrored current_line while the mirror holds no document for the sleep
\* branch to recompute the line from.
C32_MirrorAgreesOnceDrained ==
    LyricsEventsDrained =>
        /\ app_state.lyrics_state.is_loading = state.is_loading
        /\ app_state.lyrics_state.current_lyrics = state.current_lyrics
        /\ app_state.lyrics_state.current_lyrics = None
             => app_state.lyrics_state.current_line = state.current_line


\* ========================================================== claims, SpecTimer
\* The snapshot of the sync_with_media call of the step, and its identity.
SyncedMedia == timer_call'.media
HasIdentity(media) == media.title # "" /\ media.artist # ""
IdentityOf(media) ==
    IF HasIdentity(media) THEN Some(<< media.title, media.artist >>) ELSE None

\* C33: a sync_with_media whose snapshot identity differs from the stored one
\* sets base, duration and playing flag from the snapshot (a missing position
\* or duration as 0, playing iff the status is Playing), sets the timestamp to
\* the clock, stores the identity and sends SongChanged when title and artist
\* are both non-empty and Reset otherwise; a snapshot without identity while
\* none is stored changes no field and sends nothing.
C33_NewIdentityHardReset ==
    [][timer_call'.op = "sync_with_media" =>
         /\ IdentityOf(SyncedMedia) # current_song =>
              /\ base_position_ms' =
                   (IF SyncedMedia.position = None THEN 0 ELSE SyncedMedia.position[1])
              /\ duration_ms' =
                   (IF SyncedMedia.duration = None THEN 0 ELSE SyncedMedia.duration[1])
              /\ is_playing' = (SyncedMedia.playback_status = "Playing")
              /\ last_update_timestamp' = now
              /\ current_song' = IdentityOf(SyncedMedia)
              /\ timer_emitted' =
                   << IF HasIdentity(SyncedMedia)
                      THEN SongChanged(SyncedMedia.title, SyncedMedia.artist,
                                       SyncedMedia.duration)
                      ELSE ResetEvent >>
         /\ (~HasIdentity(SyncedMedia) /\ current_song = None) =>
              /\ UNCHANGED << is_playing, base_position_ms, duration_ms,
                              last_update_timestamp, current_song, playback_event,
                              playback_changed >>
              /\ timer_emitted' = << >>]_vars

\* A snapshot without identity has just replaced a stored song: the fields
\* come from the snapshot and Reset was sent.
C33_Witness ==
    /\ timer_call.op = "sync_with_media"
    /\ ~HasIdentity(timer_call.media)
    /\ timer_call.media.position = Some(2001)
    /\ timer_call.media.playback_status = "Playing"
    /\ timer_emitted = << ResetEvent >>
    /\ current_song = None
    /\ base_position_ms = 2001
    /\ is_playing


\* =========================================================== claims, SpecHttp
\* The errors the claim lets consume retry attempts.
RetriedErrors == {"NetworkError", "Timeout", "ServiceUnavailable", "RateLimited"}

\* C34: an execute_request that ends in another error than NetworkError,
\* Timeout, ServiceUnavailable or RateLimited (a non-2xx status other than 429
\* and 5xx gives ApiError) is the last of its call: the call has returned that
\* error and neither sleeps nor asks again.
C34_OnlyTransientErrorsRetried ==
    \A i \in 1..Len(http_log) :
        (~http_log[i].ok /\ http_log[i].error \notin RetriedErrors) =>
            /\ i = Len(http_log)
            /\ http_pc \in {"returned", "idle"}
            /\ http_pc = "returned" => http_result = Some(HttpErr(http_log[i].error))


\* ======================================================== claims, SpecManager
\* The current song's document has no original text but a translated one.
HoldsTranslationOnly ==
    /\ IsSome(state.current_song)
    /\ ~state.is_loading
    /\ IsSome(state.current_lyrics)
    /\ state.current_lyrics[1].original = None
    /\ IsSome(state.current_lyrics[1].translated)

\* C35: once retrieval has succeeded with a document that has no original
\* text but a translated one, the parsed line list kept for the song is the
\* one parsed from the translated text, and a completed line-cursor update
\* leaves the line that list gives for its position.
C35_TranslatedTextParsed ==
    HoldsTranslationOnly =>
        LET lines == ParseLyricsToTimestamps(state.current_lyrics[1].translated[1])
        IN  /\ MapGet(parsed_lyrics_cache, state.current_song[1]) = Some(lines)
            /\ IsSome(cursor_update) =>
                 state.current_line = FindCurrentLyricsLine(lines, cursor_update[1])


SongReplacedBy(handler) ==
    /\ manager_call'.handler = handler
    /\ IsSome(state.current_song)
    /\ IsSome(state'.current_song)
    /\ state'.current_song # state.current_song

C37_LineLookupsAgree ==
    (pure_input.fn = "current_line" /\ IsSome(pure_output)) =>
        pure_output[1].find_current_lyrics_line = pure_output[1].parse_lrc_for_time


\* =========================================================== claims, SpecTick
\* A tick has returned that ran next to a sync_with_media which stored a song
\* change or a drift correction, and that call has returned too.
TickMetStoringSync ==
    /\ ticker.pc = "done"
    /\ ~WriterActive
    /\ IsSome(ticker.synced)

\* C38: with the loads and stores of update_internal_position interleaved
\* with the stores of sync_with_media, the base_position_ms left when both
\* have returned is the position the snapshot reported plus at most the time
\* elapsed since the sync (clipped to the duration), never the base from
\* before the sync plus elapsed time.
C38_TickKeepsSyncedBase ==
    TickMetStoringSync =>
        \E elapsed_ms \in 0..(now - ticker.synced[1].at) :
            base_position_ms =
                TickPosition(ticker.synced[1].base, elapsed_ms, duration_ms)


\* C39: for every max_files from 1 on, a get for an identity in the step
\* right after a successful put for that identity returns the document of
\* that put, also when the put's write raised the number of files above
\* max_files: the eviction run by a put never deletes the put's own entry.
C39_PutSurvivesItsOwnEviction ==
    [][ ( /\ cache_call.op = "put"
          /\ cache_call.ok
          /\ CacheGetCalled
          /\ cache_call'.key = cache_call.key )
            => cache_call'.value = Some(cache_call.lyrics_data)
      ]_vars


\* ====================================================== claims, SpecSettle
\* The identities the monitor reports.
SettledSongs == {SongInfo("s1", "a1"), SongInfo("s2", "a1")}

\* The latest snapshot on the media channel carries the identity song_info.
SnapshotCarries(song_info) ==
    /\ media_event.type = "InfoUpdated"
    /\ HasIdentity(media_event.media)
    /\ SongInfo(media_event.media.title, media_event.media.artist) = song_info

\* The orchestrator holds song_info, is not loading, and the loop is not
\* inside a retrieval.
SettledOn(song_info) ==
    /\ state.current_song = Some(song_info)
    /\ ~state.is_loading
    /\ loop_pc.at # "retrieval"

\* C40: if from some point on every snapshot of the media channel carries the
\* same non-blank identity S, and every retrieval returns, then from some
\* point on the orchestrator's LyricsState has current_song = S and
\* is_loading = false and no retrieval is invoked any more.
C40_SettlesOnSteadySong ==
    \A song_info \in SettledSongs :
        <>[]SnapshotCarries(song_info) => <>[]SettledOn(song_info)

\* The loop is back at its select! with s2 loaded after a media snapshot of
\* s2, both channels drained, while the tracker had s2 from that snapshot.
C40_Witness ==
    /\ SnapshotCarries(SongInfo("s2", "a1"))
    /\ SettledOn(SongInfo("s2", "a1"))
    /\ IsSome(state.current_lyrics)
    /\ ~media_changed
    /\ ~playback_changed
    /\ manager_call.handler = "playback"
    /\ current_song = Some(<< "s2", "a1" >>)
=============================================================================
